---------------------------- MODULE Spec2Model ----------------------------
(***************************************************************************)
(* Model of the SAM state core of the Todo PWA (src/app.js): the model     *)
(* object (state, load, save and the six mutations), the derived queries,  *)
(* and the two localStorage keys it persists to.                           *)
(*                                                                         *)
(* Representation.                                                         *)
(*  - A JavaScript string that is a title is a run-length encoded sequence *)
(*    of runs [c |-> character, n |-> count > 0], adjacent runs having     *)
(*    different characters, so that equality of encodings is equality of   *)
(*    strings and a 500 character title costs one run.                     *)
(*  - A loosely typed JavaScript value coming from a caller is a record    *)
(*    [type |-> "string", v |-> ...], [type |-> "number", v |-> ...],      *)
(*    [type |-> "boolean", v |-> ...], [type |-> "null"] or                *)
(*    [type |-> "undefined"].                                              *)
(*  - A todo held in memory is a record with the fields the object has:    *)
(*    id, title and, unless a stored record lacked them, completed and     *)
(*    createdAt.                                                           *)
(*  - The text under a localStorage key is [kind |-> "missing"] (getItem   *)
(*    returns null), [kind |-> "empty"] (the empty string),                *)
(*    [kind |-> "garbage"] (text JSON.parse throws on),                    *)
(*    [kind |-> "json", value |-> J] (text that parses to the JSON value   *)
(*    J) or, for the filter key, [kind |-> "text", v |-> string].          *)
(***************************************************************************)
EXTENDS Integers, Sequences, FiniteSets, TLC

VARIABLES
    state,      \* model.state: [todos, currentFilter]
    storage,    \* localStorage: one text per key
    loaded,     \* init() has run model.load() in this page session
    nextId,     \* number of ids generateId() has produced so far
    saves,      \* number of save() calls so far, counted up to MaxFaultySaves
    last,       \* the last call made on the model and what it returned
    sw,         \* the service worker registration of the origin, its caches,
                \* and what registerServiceWorker() keeps in the page
    heap,       \* the objects the model has constructed, which of them is
                \* model.state, and the states it has returned
    trail,      \* the states model.state has held and the writes that failed
    ui          \* the document: what renderState() put there, and the
                \* inline edit sessions

vars == <<state, storage, loaded, nextId, saves, last, sw, heap, trail, ui>>

(***************************************************************************)
(* Section 1 of app.js: constants and utilities                            *)
(***************************************************************************)
STORAGE_KEY == "todos"
FILTER_KEY == "currentFilter"

\* The title bound of addTodo and editTodo.
MaxTitleLen == 500

\* Bounds of the model.
MaxIds == 2             \* generateId() is called at most this often
MaxFaultySaves == 1     \* only the first so many save() calls may meet a failing write
MaxTodos == 2           \* addTodo is not called on a longer collection
MaxVersions == 2        \* versions of service-worker.js the server comes to serve
MaxReturned == 3        \* states the model returns while its objects are followed
MaxPersists == 3        \* save() calls while the states held are recorded
MaxRenders == 3         \* renderTodoList() calls while the list elements are told apart
MaxSessions == 2        \* inline edit sessions opened

Null == [type |-> "null"]
Undefined == [type |-> "undefined"]
JsString(s) == [type |-> "string", v |-> s]
JsNumber(n) == [type |-> "number", v |-> n]
JsBoolean(b) == [type |-> "boolean", v |-> b]

Run(c, n) == [c |-> c, n |-> n]

RECURSIVE StrLen(_)
\* String.prototype.length on the run-length encoding.
StrLen(s) == IF s = <<>> THEN 0 ELSE Head(s).n + StrLen(Tail(s))

IsWhitespace(c) == c \in {" ", "\t", "\n"}

\* String.prototype.trim: drops the leading and the trailing whitespace runs.
Trim(s) ==
    LET keep == {i \in 1..Len(s) : ~IsWhitespace(s[i].c)}
    IN  IF keep = {} THEN <<>>
        ELSE LET lo == CHOOSE i \in keep : \A j \in keep : i <= j
                 hi == CHOOSE i \in keep : \A j \in keep : j <= i
             IN  SubSeq(s, lo, hi)

\* generateId(): crypto.randomUUID(), the n-th value it returns.
generateId(n) == "u" \o ToString(n)

\* trimTitle(title)
trimTitle(title) == IF title.type = "string" THEN Trim(title.v) ELSE <<>>

\* title.trim() throws a TypeError on anything that is no string: null and
\* undefined have no properties, other values have no trim method.
TrimThrows(title) == title.type # "string"

\* trimTitle, had it called trim() without asking for the type.
trimTitleFaults_NoGuard(title) == TrimThrows(title)

\* An exception leaves trimTitle(title): trim() is reached only for a string.
trimTitleFaults(title) == IF title.type = "string" THEN TrimThrows(title) ELSE FALSE


(***************************************************************************)
(* JSON, as JSON.stringify writes a todo array and JSON.parse reads one    *)
(***************************************************************************)
JsonArray(items) == [type |-> "array", items |-> items]
JsonObject(fields) == [type |-> "object", fields |-> fields]

\* The JSON value of one field of a todo: id and title are strings,
\* completed a boolean, createdAt a number.
FieldToJson(f, v) ==
    IF f \in {"id", "title"} THEN JsString(v)
    ELSE IF f = "completed" THEN JsBoolean(v)
    ELSE JsNumber(v)

TodoToJson(t) == JsonObject([f \in DOMAIN t |-> FieldToJson(f, t[f])])

\* JSON.stringify(newState.todos): the text written under STORAGE_KEY.
JSONstringify(todos) ==
    [kind |-> "json",
     value |-> JsonArray([i \in 1..Len(todos) |-> TodoToJson(todos[i])])]

\* JSON.parse(text) throws on text that is not JSON; the empty string is not.
JSONparseThrows(text) == text.kind \in {"garbage", "empty"}

\* JSON.parse(text) otherwise.
JSONparse(text) == text.value

\* The object JSON.parse builds for a stored record that passed the filter of load.
TodoFromJson(j) == [f \in DOMAIN j.fields |-> j.fields[f].v]

\* A string read from localStorage is truthy unless it is null or empty.
TextTruthy(text) == text.kind \notin {"missing", "empty"}

\* load: t && typeof t.id === 'string' && typeof t.title === 'string'
IsValidRecord(j) ==
    /\ j.type = "object"
    /\ "id" \in DOMAIN j.fields
    /\ j.fields.id.type = "string"
    /\ "title" \in DOMAIN j.fields
    /\ j.fields.title.type = "string"

\* load, had one bad record made it drop the whole batch.
SelectValid_AllOrNothing(items) ==
    IF \A i \in 1..Len(items) : IsValidRecord(items[i])
    THEN [i \in 1..Len(items) |-> TodoFromJson(items[i])]
    ELSE <<>>

\* Array.prototype.filter
RECURSIVE SelectValid(_)
SelectValid(items) ==
    IF items = <<>> THEN <<>>
    ELSE IF IsValidRecord(Head(items))
         THEN <<TodoFromJson(Head(items))>> \o SelectValid(Tail(items))
         ELSE SelectValid(Tail(items))

\* load: (t.createdAt || 0)
SortKey(t) == IF "createdAt" \in DOMAIN t THEN t.createdAt ELSE 0

\* One step of a stable insertion: x, which stood before every element of
\* sorted, goes before the first element whose key is not greater than its own.
RECURSIVE InsertDesc(_, _)
InsertDesc(x, sorted) ==
    IF sorted = <<>> THEN <<x>>
    ELSE IF SortKey(Head(sorted)) > SortKey(x)
         THEN <<Head(sorted)>> \o InsertDesc(x, Tail(sorted))
         ELSE <<x>> \o sorted

\* load, had it left the records in their stored order.
SortByCreatedAtDesc_Unsorted(todos) == todos

\* load: .sort((a, b) => (b.createdAt || 0) - (a.createdAt || 0)), a stable sort.
RECURSIVE SortByCreatedAtDesc(_)
SortByCreatedAtDesc(todos) ==
    IF todos = <<>> THEN <<>>
    ELSE InsertDesc(Head(todos), SortByCreatedAtDesc(Tail(todos)))

ValidFilters == {"all", "active", "completed"}

\* The state a fresh page constructs (model.state's initializer).
DefaultState == [todos |-> <<>>, currentFilter |-> "all"]

(***************************************************************************)
(* Section 2 of app.js: the model                                          *)
(***************************************************************************)
\* load, had it adopted every non-empty stored filter.
load_AnyFilter(st, store, readThrows) ==
    LET todosJson == store[STORAGE_KEY]
        filter == store[FILTER_KEY]
        caught == [todos |-> <<>>, currentFilter |-> "all"]
        withTodos ==
            IF TextTruthy(todosJson) /\ JSONparse(todosJson).type = "array"
            THEN [st EXCEPT !.todos =
                     SortByCreatedAtDesc(SelectValid(JSONparse(todosJson).items))]
            ELSE st
    IN  IF readThrows THEN caught
        ELSE IF TextTruthy(todosJson) /\ JSONparseThrows(todosJson) THEN caught
        ELSE IF filter.kind = "text" /\ filter.v # ""
             THEN [withTodos EXCEPT !.currentFilter = filter.v]
             ELSE withTodos

\* model.load() on in-memory state st with localStorage store; readThrows:
\* localStorage.getItem itself throws (storage unavailable).
load(st, store, readThrows) ==
    LET todosJson == store[STORAGE_KEY]
        filter == store[FILTER_KEY]
        caught == [todos |-> <<>>, currentFilter |-> "all"]
        withTodos ==
            IF TextTruthy(todosJson) /\ JSONparse(todosJson).type = "array"
            THEN [st EXCEPT !.todos =
                     SortByCreatedAtDesc(SelectValid(JSONparse(todosJson).items))]
            ELSE st
    IN  IF readThrows THEN caught
        ELSE IF TextTruthy(todosJson) /\ JSONparseThrows(todosJson) THEN caught
        ELSE IF filter.kind = "text" /\ filter.v \in ValidFilters
             THEN [withTodos EXCEPT !.currentFilter = filter.v]
             ELSE withTodos

\* An exception leaves load(): getItem and JSON.parse are the calls that
\* throw, and both are made inside the try block, whose catch block takes
\* whatever is thrown.
loadFaults(store, readThrows) ==
    LET thrown == readThrows
                  \/ (TextTruthy(store[STORAGE_KEY]) /\ JSONparseThrows(store[STORAGE_KEY]))
        caught == thrown
    IN  thrown /\ ~caught

WriteOutcomes == {"ok", "failTodos", "failFilter"}

\* save, had it no try/catch around the two setItem calls.
saveFaults_NoCatch(w) == w \in {"failTodos", "failFilter"}

\* An exception leaves save(newState): a setItem that throws does so inside
\* the try block, whose catch block takes whatever is thrown.
saveFaults(w) ==
    LET thrown == w \in {"failTodos", "failFilter"}
        caught == thrown
    IN  thrown /\ ~caught

\* save, had it written only the items key.
save_SkipFilter(store, newState, w) ==
    [state |-> newState,
     storage |->
        IF w = "failTodos" THEN store
        ELSE [store EXCEPT ![STORAGE_KEY] = JSONstringify(newState.todos)]]

\* save, had it assigned this.state only after both writes went through.
save_KeepOldOnFailure(store, newState, w) ==
    [state |-> IF w = "ok" THEN newState ELSE state,
     storage |->
        CASE w = "ok" ->
               [store EXCEPT ![STORAGE_KEY] = JSONstringify(newState.todos),
                             ![FILTER_KEY] = [kind |-> "text", v |-> newState.currentFilter]]
          [] w = "failTodos" -> store
          [] w = "failFilter" ->
               [store EXCEPT ![STORAGE_KEY] = JSONstringify(newState.todos)]]

\* model.save(newState): the in-memory state is replaced, then the two keys are
\* written in order; w says which setItem, if any, throws.
save(store, newState, w) ==
    [state |-> newState,
     storage |->
        CASE w = "ok" ->
               [store EXCEPT ![STORAGE_KEY] = JSONstringify(newState.todos),
                             ![FILTER_KEY] = [kind |-> "text", v |-> newState.currentFilter]]
          [] w = "failTodos" -> store
          [] w = "failFilter" ->
               [store EXCEPT ![STORAGE_KEY] = JSONstringify(newState.todos)]]

\* findIndex((t) => t.id === id) !== -1
HasId(todos, id) ==
    id.type = "string" /\ \E i \in 1..Len(todos) : todos[i].id = id.v

\* !t.completed, also for a stored record that has no completed field
NotCompleted(t) == IF "completed" \in DOMAIN t THEN ~t.completed ELSE TRUE

\* { ...t, completed: !t.completed }, had it marked the item done instead.
WithToggled_MarkDone(t) ==
    [f \in DOMAIN t \cup {"completed"} |->
        IF f = "completed" THEN TRUE ELSE t[f]]

\* { ...t, completed: !t.completed }
WithToggled(t) ==
    [f \in DOMAIN t \cup {"completed"} |->
        IF f = "completed" THEN NotCompleted(t) ELSE t[f]]

\* { ...t, title: trimmed }, had it also stamped the edit time.
WithTitle_ResetCreatedAt(t, trimmed) ==
    [f \in DOMAIN t \cup {"createdAt"} |->
        IF f = "title" THEN trimmed ELSE IF f = "createdAt" THEN 0 ELSE t[f]]

\* { ...t, title: trimmed }
WithTitle(t, trimmed) == [t EXCEPT !.title = trimmed]

\* addTodo, had it compared with >= instead of >.
addTodo_OffByOne(st, title, id, now) ==
    LET trimmed == trimTitle(title)
    IN  IF trimmed = <<>> \/ StrLen(trimmed) >= MaxTitleLen THEN Null
        ELSE [st EXCEPT !.todos =
                 <<[id |-> id, title |-> trimmed, completed |-> FALSE,
                    createdAt |-> now]>> \o st.todos]

\* addTodo, had it appended the new todo.
addTodo_Append(st, title, id, now) ==
    LET trimmed == trimTitle(title)
    IN  IF trimmed = <<>> \/ StrLen(trimmed) > MaxTitleLen THEN Null
        ELSE [st EXCEPT !.todos =
                 st.todos \o <<[id |-> id, title |-> trimmed, completed |-> FALSE,
                                createdAt |-> now]>>]

\* addTodo, had it made the id from the clock.
addTodo_IdFromClock(st, title, id, now) ==
    LET trimmed == trimTitle(title)
    IN  IF trimmed = <<>> \/ StrLen(trimmed) > MaxTitleLen THEN Null
        ELSE [st EXCEPT !.todos =
                 <<[id |-> "t" \o ToString(now), title |-> trimmed,
                    completed |-> FALSE, createdAt |-> now]>> \o st.todos]

\* model.addTodo(title) with the id and the time the call draws; Null or newState.
addTodo(st, title, id, now) ==
    LET trimmed == trimTitle(title)
    IN  IF trimmed = <<>> \/ StrLen(trimmed) > MaxTitleLen THEN Null
        ELSE [st EXCEPT !.todos =
                 <<[id |-> id, title |-> trimmed, completed |-> FALSE,
                    createdAt |-> now]>> \o st.todos]

\* model.toggleTodo(id)
toggleTodo(st, id) ==
    IF ~HasId(st.todos, id) THEN Null
    ELSE [st EXCEPT !.todos =
             [i \in 1..Len(st.todos) |->
                 IF st.todos[i].id = id.v THEN WithToggled(st.todos[i])
                 ELSE st.todos[i]]]

\* model.deleteTodo(id)
deleteTodo(st, id) ==
    IF ~HasId(st.todos, id) THEN Null
    ELSE [st EXCEPT !.todos = SelectSeq(st.todos, LAMBDA t : t.id # id.v)]

\* editTodo, had it left out the findIndex check.
editTodo_NoIdCheck(st, id, newTitle) ==
    LET trimmed == trimTitle(newTitle)
    IN  IF trimmed = <<>> \/ StrLen(trimmed) > MaxTitleLen THEN Null
        ELSE [st EXCEPT !.todos =
                 [i \in 1..Len(st.todos) |->
                     IF id.type = "string" /\ st.todos[i].id = id.v
                     THEN WithTitle(st.todos[i], trimmed)
                     ELSE st.todos[i]]]

\* model.editTodo(id, newTitle)
editTodo(st, id, newTitle) ==
    LET trimmed == trimTitle(newTitle)
    IN  IF trimmed = <<>> \/ StrLen(trimmed) > MaxTitleLen THEN Null
        ELSE IF ~HasId(st.todos, id) THEN Null
        ELSE [st EXCEPT !.todos =
                 [i \in 1..Len(st.todos) |->
                     IF st.todos[i].id = id.v THEN WithTitle(st.todos[i], trimmed)
                     ELSE st.todos[i]]]

\* setFilter, had it accepted every string.
setFilter_AnyString(st, filterType) ==
    IF filterType.type # "string" THEN Null
    ELSE [st EXCEPT !.currentFilter = filterType.v]

\* setFilter, had it also narrowed the collection to the items the filter shows.
setFilter_DropsHidden(st, filterType) ==
    IF ~(filterType.type = "string" /\ filterType.v \in ValidFilters) THEN Null
    ELSE [todos |->
             CASE filterType.v = "active" -> SelectSeq(st.todos, NotCompleted)
               [] filterType.v = "completed" ->
                    SelectSeq(st.todos, LAMBDA t : ~NotCompleted(t))
               [] OTHER -> st.todos,
          currentFilter |-> filterType.v]

\* model.setFilter(filterType)
setFilter(st, filterType) ==
    IF ~(filterType.type = "string" /\ filterType.v \in ValidFilters) THEN Null
    ELSE [st EXCEPT !.currentFilter = filterType.v]

\* clearCompleted, had its filter callback lost the negation.
clearCompleted_KeepsCompleted(st) ==
    [st EXCEPT !.todos = SelectSeq(st.todos, LAMBDA t : ~NotCompleted(t))]

\* clearCompleted, had it removed only the first completed item it finds.
clearCompleted_FirstOnly(st) ==
    LET done == {i \in 1..Len(st.todos) : ~NotCompleted(st.todos[i])}
    IN  IF done = {} THEN st
        ELSE LET k == CHOOSE i \in done : \A j \in done : i <= j
             IN  [st EXCEPT !.todos =
                     SubSeq(st.todos, 1, k - 1) \o SubSeq(st.todos, k + 1, Len(st.todos))]

\* model.clearCompleted()
clearCompleted(st) ==
    [st EXCEPT !.todos = SelectSeq(st.todos, NotCompleted)]

\* getActiveCount, had it counted within the filtered view.
getActiveCount_OfView(st) ==
    IF st.currentFilter = "completed" THEN 0
    ELSE Len(SelectSeq(st.todos, NotCompleted))

\* model.getActiveCount()
getActiveCount(st) == Len(SelectSeq(st.todos, NotCompleted))

\* model.getCompletedCount()
getCompletedCount(st) == Len(SelectSeq(st.todos, LAMBDA t : ~NotCompleted(t)))

\* getFilteredTodos, had its switch no case for 'active'.
FilteredTodos_ActiveFallsThrough(todos, f) ==
    CASE f = "completed" -> SelectSeq(todos, LAMBDA t : ~NotCompleted(t))
      [] OTHER -> todos

\* model.getFilteredTodos() under filter f
FilteredTodos(todos, f) ==
    CASE f = "active" -> SelectSeq(todos, NotCompleted)
      [] f = "completed" -> SelectSeq(todos, LAMBDA t : ~NotCompleted(t))
      [] OTHER -> todos

getFilteredTodos(st) == FilteredTodos(st.todos, st.currentFilter)

(***************************************************************************)
(* Section 3 of app.js: the actions                                        *)
(***************************************************************************)
\* An action, had it rendered whatever the model returned.
actionsRender_Always(op, newState) == TRUE

\* actions.<op>: renderState() is called if the model returned a state;
\* actions.clearCompleted calls it without looking at what was returned.
actionsRender(op, newState) == op = "clearCompleted" \/ newState # Null

\* What actions.<op> returns: actions.addTodo a boolean, the others nothing.
actionsReturn(op, newState) ==
    IF op = "addTodo" THEN JsBoolean(newState # Null) ELSE Undefined

\* t.completed read as a condition: true only for a field that is there and true.
Completed(t) == "completed" \in DOMAIN t /\ t.completed

(***************************************************************************)
(* The environment: what localStorage holds when a page starts, and the    *)
(* arguments callers pass                                                  *)
(***************************************************************************)
Blank == Run(" ", 1)
TitleAB == <<Run("a", 1), Run(" ", 1), Run("b", 1)>>
TitleMax == <<Run("x", MaxTitleLen)>>
TitleOver == <<Run("x", MaxTitleLen + 1)>>

\* The titles callers pass: a non-string, whitespace only, a padded short
\* title, and padded titles at and one over the bound.
RawTitles ==
    { Null, Undefined, JsNumber(42),
      JsString(<<Run(" ", 2), Run("\t", 1)>>),
      JsString(<<Run(" ", 2)>> \o TitleAB \o <<Run("\t", 1)>>),
      JsString(<<Blank>> \o TitleMax \o <<Blank>>),
      JsString(<<Blank>> \o TitleOver) }

\* Date.now() returns one of these instants; it is a wall clock, so a later
\* call may return an earlier instant.
Instants == {1000, 2000}

UnknownIds == {JsString("no-such-id"), Null}

\* The ids callers pass: those of the items shown, and unknown ones.
IdInputs(st) == {JsString(st.todos[i].id) : i \in 1..Len(st.todos)} \cup UnknownIds

FilterInputs == {JsString(f) : f \in ValidFilters} \cup {JsString("bogus"), Null}

\* The (id, newTitle) pairs callers pass to editTodo: every title for the ids
\* of the items shown, and an acceptable title for an unknown id.
EditInputs(st) ==
    ({JsString(st.todos[i].id) : i \in 1..Len(st.todos)} \X RawTitles)
    \cup (UnknownIds \X {JsString(<<Run(" ", 2)>> \o TitleAB \o <<Run("\t", 1)>>)})

StoredTodo(id, title, completed, createdAt) ==
    JsonObject([id |-> JsString(id), title |-> JsString(title),
                completed |-> JsBoolean(completed), createdAt |-> JsNumber(createdAt)])

JsonText(items) == [kind |-> "json", value |-> JsonArray(items)]

Store(todosText, filterText) ==
    (STORAGE_KEY :> todosText) @@ (FILTER_KEY :> filterText)

Missing == [kind |-> "missing"]
FilterText(v) == [kind |-> "text", v |-> v]

\* What the two keys hold when the page is opened: nothing (first visit),
\* text that does not parse, JSON that is no array, the empty string, and
\* arrays written by earlier sessions or by hand: unsorted, with records of
\* the wrong shape, with a repeated id, with a record that has only id and
\* title before a complete one, and with titles no mutation would accept.
SeedStores ==
    { Store(Missing, Missing),
      Store([kind |-> "garbage"], FilterText("active")),
      Store([kind |-> "json", value |-> JsonObject([todos |-> JsonArray(<<>>)])],
            FilterText("completed")),
      Store([kind |-> "empty"], FilterText("active")),
      Store(JsonText(<<StoredTodo("s1", TitleAB, FALSE, 1000),
                       StoredTodo("s2", TitleMax, TRUE, 2000)>>),
            FilterText("completed")),
      Store(JsonText(<<JsonObject([id |-> JsNumber(123), title |-> JsString(TitleAB)]),
                       JsonObject([id |-> JsString("ok"), title |-> Null]),
                       Null,
                       StoredTodo("s1", TitleAB, FALSE, 1000),
                       JsonObject([title |-> JsString(TitleAB)])>>),
            Missing),
      Store(JsonText(<<StoredTodo("s1", TitleAB, FALSE, 2000),
                       StoredTodo("s1", TitleMax, TRUE, 1000)>>),
            FilterText("all")),
      Store(JsonText(<<JsonObject([id |-> JsString("s1"), title |-> JsString(TitleAB)]),
                       StoredTodo("s2", TitleAB, TRUE, 1000)>>),
            FilterText("")),
      Store(JsonText(<<StoredTodo("s1", <<Run(" ", 2)>>, FALSE, 2000)>>),
            FilterText("bogus")),
      Store(JsonText(<<StoredTodo("s1", TitleOver, TRUE, 2000)>>), Missing) }

(***************************************************************************)
(* service-worker.js, and registerServiceWorker() of app.js                *)
(*                                                                         *)
(* A worker is named by the version of the script it runs, 0 standing for  *)
(* no worker.  The origin owns the Cache Storage (the names of its caches  *)
(* and, for the cache CACHE_NAME, the response it holds for each request,  *)
(* NoResponse when it holds none) and localStorage.                        *)
(***************************************************************************)
CACHE_NAME == "todo-pwa-v1"

\* A cache an earlier release of the application left behind.
OldCache == "todo-pwa-v0"

\* The requests followed: one for an entry of ASSETS_TO_CACHE, one for a URL
\* that is not precached.
Requests == {"./app.js", "./favicon.ico"}
ASSETS_TO_CACHE == {"./app.js"}

NoResponse == [ok |-> FALSE, body |-> 0]
Response(ok, body) == [ok |-> ok, body |-> body]
NoEntries == [r \in Requests |-> NoResponse]

\* What fetch(request) comes to: a response, ok or not, of the release the
\* server serves, or a rejection.
NetworkOutcomes(release) ==
    {[kind |-> "response", response |-> Response(TRUE, release)],
     [kind |-> "response", response |-> Response(FALSE, release)],
     [kind |-> "rejected", response |-> NoResponse]}

Origin(caches, entries, store) == [caches |-> caches, entries |-> entries, storage |-> store]

\* install: caches.open(CACHE_NAME) creates the cache and addAll stores the
\* responses for ASSETS_TO_CACHE, all of them or, when a request fails, none.
install(origin, addAllOk, release) ==
    [origin EXCEPT !.caches = @ \cup {CACHE_NAME},
                   !.entries = IF addAllOk
                               THEN [r \in Requests |->
                                        IF r \in ASSETS_TO_CACHE
                                        THEN Response(TRUE, release) ELSE @[r]]
                               ELSE @]

\* fetch, had it asked the network first and used the cache when that failed.
fetchHandler_NetworkFirst(origin, request, network) ==
    [origin |-> [origin EXCEPT !.caches = @ \cup {CACHE_NAME},
                               !.entries[request] =
                                   IF network.kind = "response" /\ network.response.ok
                                   THEN network.response ELSE @],
     respond |-> IF network.kind = "response" THEN network.response
                 ELSE origin.entries[request],
     issued |-> TRUE]

\* fetch: respondWith(cachedResponse || networkFetch), where networkFetch is
\* started in either case, puts an ok response into the cache, and comes to
\* cachedResponse when fetch rejects.
fetchHandler(origin, request, network) ==
    LET cachedResponse == origin.entries[request]
        networkFetch == IF network.kind = "response" THEN network.response
                        ELSE cachedResponse
    IN  [origin |-> [origin EXCEPT !.caches = @ \cup {CACHE_NAME},
                                   !.entries[request] =
                                       IF network.kind = "response" /\ network.response.ok
                                       THEN network.response ELSE @],
         respond |-> IF cachedResponse # NoResponse THEN cachedResponse ELSE networkFetch,
         issued |-> TRUE]

\* activate, had it cleared everything the origin stores.
activate_ClearsSiteData(origin) ==
    [caches |-> {}, entries |-> NoEntries,
     storage |-> (STORAGE_KEY :> [kind |-> "missing"]) @@ (FILTER_KEY :> [kind |-> "missing"])]

\* activate, first part: every cache not named CACHE_NAME is deleted.
activate(origin) == [origin EXCEPT !.caches = {name \in @ : name = CACHE_NAME}]

\* activate, had it claimed the clients before deleting.
activateSteps_ClaimFirst == <<"claim", "delete">>

\* activate: the promise chain given to waitUntil, caches.keys() and the
\* deletions first, then self.clients.claim().
activateSteps == <<"delete", "claim">>

\* message: self.skipWaiting() for the data 'skipWaiting' and nothing otherwise.
message(skipWaiting, data) == skipWaiting \/ data = "skipWaiting"

\* updatefound: a statechange listener is put on registration.installing.
updatefound(page, installing) ==
    IF installing = 0 THEN page ELSE [page EXCEPT !.watched = installing]

\* statechange, had it shown the banner for every installed worker.
statechange_OnEveryInstall(page, workerState, controller) ==
    IF workerState = "installed"
    THEN [page EXCEPT !.banner = page.watched, !.bannerUnder = controller]
    ELSE page

\* statechange of the watched worker: showUpdateNotification(newWorker) when
\* the worker is installed and the page has a controller.
statechange(page, workerState, controller) ==
    IF workerState = "installed" /\ controller # 0
    THEN [page EXCEPT !.banner = page.watched, !.bannerUnder = controller]
    ELSE page

\* controllerchange, had it no refreshing flag.
controllerchange_NoFlag(page) ==
    [page EXCEPT !.refreshing = TRUE, !.navigating = TRUE,
                 !.changes = @ + 1, !.reloads = @ + 1]

\* controllerchange: window.location.reload(), once per page.
controllerchange(page) ==
    IF page.refreshing THEN [page EXCEPT !.changes = @ + 1]
    ELSE [page EXCEPT !.refreshing = TRUE, !.navigating = TRUE,
                      !.changes = @ + 1, !.reloads = @ + 1]

\* What registerServiceWorker() and the notification keep in the page; a new
\* page starts with this.
NewPage ==
    [registered |-> FALSE,  \* register() was called and the listeners are on
     watched |-> 0,         \* the worker whose statechange is listened to
     banner |-> 0,          \* the worker the update banner shown is for
     bannerUnder |-> 0,     \* the controller of the page when it was shown
     refreshing |-> FALSE,  \* the flag of the controllerchange listener
     navigating |-> FALSE,  \* window.location.reload() was called
     changes |-> 0,         \* controllerchange events the page received
     reloads |-> 0]         \* calls of window.location.reload() it made

NoMessage == [to |-> 0, data |-> "none"]

\* No worker was ever registered for the origin.
NoWorker ==
    [deployed |-> 1,        \* the version of service-worker.js the server serves
     installing |-> 0, waiting |-> 0, active |-> 0,
     controller |-> 0,      \* the worker controlling the page
     skipWaiting |-> FALSE, \* the waiting worker called self.skipWaiting()
     asked |-> 0,           \* the worker the Update control last posted to
     inbox |-> NoMessage,   \* the message posted and not yet delivered
     signal |-> "none",     \* the state the installing worker just moved to
     changed |-> FALSE,     \* a controllerchange event is due on the page
     chain |-> <<>>,        \* what is left of the activate handler's chain
     caches |-> {},
     entries |-> NoEntries,
     deleted |-> {},        \* the caches deleted so far
     page |-> NewPage]

(***************************************************************************)
(* The objects of the model                                                *)
(*                                                                         *)
(* An object is named by its position in heap.objs, in the order of        *)
(* construction.  A state object holds the name of its todos array and the *)
(* filter, an array holds the names of its items, an item holds a todo.    *)
(***************************************************************************)
StateObj(todosRef, filter) == [kind |-> "state", todos |-> todosRef, currentFilter |-> filter]
ArrayObj(refs) == [kind |-> "array", items |-> refs]
ItemObj(t) == [kind |-> "item", v |-> t]

\* The todos a state object holds, read through its array.
ItemsOf(objs, stateRef) ==
    LET a == objs[objs[stateRef].todos].items
    IN  [i \in 1..Len(a) |-> objs[a[i]].v]

\* The value of a state object.
Deep(objs, stateRef) ==
    [todos |-> ItemsOf(objs, stateRef), currentFilter |-> objs[stateRef].currentFilter]

\* model.state as the script constructs it: { todos: [], currentFilter: 'all' }.
NewHeap ==
    [objs |-> <<ArrayObj(<<>>), StateObj(1, "all")>>,
     cur |-> 2,         \* the object model.state refers to
     before |-> 2,      \* the number of objects when the last call began
     returned |-> {}]   \* the states returned: the object and its value then

\* this.state = newState, and newState is returned.
Installed(h, objs, stateRef) ==
    [objs |-> objs, cur |-> stateRef, before |-> Len(h.objs),
     returned |-> h.returned \cup {[ref |-> stateRef, value |-> Deep(objs, stateRef)]}]

\* The positions of refs whose item has this id, and how many of them are at
\* or before position i.
Matching(objs, refs, id) == {i \in 1..Len(refs) : objs[refs[i]].v.id = id}
Rank(P, i) == Cardinality({j \in P : j <= i})

\* this.state.todos.map(t => t.id === id ? F(t) : t), F(t) being a new
\* object: the objects added and the array of the results.
Mapped(objs, refs, id, changed) ==
    LET P == Matching(objs, refs, id)
        n == Len(objs)
    IN  [objs |-> objs \o [k \in 1..Cardinality(P) |->
                              ItemObj(changed[CHOOSE i \in P : Rank(P, i) = k])],
         refs |-> [i \in 1..Len(refs) |->
                      IF i \in P THEN n + Rank(P, i) ELSE refs[i]]]

\* addTodo on the objects: a new item, a new array [newTodo, ...todos], a new
\* state { ...this.state, todos }.
addTodoObjects(h, newTodo) ==
    LET n == Len(h.objs)
        old == h.objs[h.cur]
    IN  Installed(h,
                  h.objs \o <<ItemObj(newTodo),
                              ArrayObj(<<n + 1>> \o h.objs[old.todos].items),
                              [old EXCEPT !.todos = n + 2]>>,
                  n + 3)

\* toggleTodo on the objects: map with { ...t, completed: !t.completed }.
toggleTodoObjects(h, id) ==
    LET old == h.objs[h.cur]
        refs == h.objs[old.todos].items
        m == Mapped(h.objs, refs, id,
                    [i \in 1..Len(refs) |-> WithToggled(h.objs[refs[i]].v)])
        n == Len(m.objs)
    IN  Installed(h, m.objs \o <<ArrayObj(m.refs), [old EXCEPT !.todos = n + 1]>>, n + 2)

\* editTodo on the objects: map with { ...t, title: trimmed }.
editTodoObjects(h, id, newTitle) ==
    LET old == h.objs[h.cur]
        refs == h.objs[old.todos].items
        m == Mapped(h.objs, refs, id,
                    [i \in 1..Len(refs) |-> WithTitle(h.objs[refs[i]].v, trimTitle(newTitle))])
        n == Len(m.objs)
    IN  Installed(h, m.objs \o <<ArrayObj(m.refs), [old EXCEPT !.todos = n + 1]>>, n + 2)

\* deleteTodo on the objects: filter(t => t.id !== id).
deleteTodoObjects(h, id) ==
    LET old == h.objs[h.cur]
        n == Len(h.objs)
        keep(r) == h.objs[r].v.id # id
    IN  Installed(h,
                  h.objs \o <<ArrayObj(SelectSeq(h.objs[old.todos].items, keep)),
                              [old EXCEPT !.todos = n + 1]>>,
                  n + 2)

\* clearCompleted on the objects: filter(t => !t.completed).
clearCompletedObjects(h) ==
    LET old == h.objs[h.cur]
        n == Len(h.objs)
        keep(r) == NotCompleted(h.objs[r].v)
    IN  Installed(h,
                  h.objs \o <<ArrayObj(SelectSeq(h.objs[old.todos].items, keep)),
                              [old EXCEPT !.todos = n + 1]>>,
                  n + 2)

\* setFilter on the objects: { ...this.state, currentFilter: filterType }.
setFilterObjects(h, filterType) ==
    LET old == h.objs[h.cur]
    IN  Installed(h, Append(h.objs, [old EXCEPT !.currentFilter = filterType]),
                  Len(h.objs) + 1)

\* load on the objects.  Without an exception it assigns to the fields of the
\* object model.state refers to: todos when the stored text parses to an
\* array (a new array of the parsed objects), currentFilter when the stored
\* filter is valid.  The catch block assigns a new object to this.state.
loadObjects(h, store, readThrows) ==
    LET n == Len(h.objs)
        v == load(Deep(h.objs, h.cur), store, readThrows)
        thrown == readThrows
                  \/ (TextTruthy(store[STORAGE_KEY]) /\ JSONparseThrows(store[STORAGE_KEY]))
        isArray == /\ store[STORAGE_KEY].kind = "json"
                   /\ store[STORAGE_KEY].value.type = "array"
        k == Len(v.todos)
    IN  IF thrown
        THEN [h EXCEPT !.objs = @ \o <<ArrayObj(<<>>), StateObj(n + 1, "all")>>,
                       !.cur = n + 2, !.before = n]
        ELSE IF isArray
        THEN [h EXCEPT !.objs = [@ EXCEPT ![h.cur] =
                                    StateObj(n + k + 1, v.currentFilter)]
                                \o [i \in 1..k |-> ItemObj(v.todos[i])]
                                \o <<ArrayObj([i \in 1..k |-> n + i])>>,
                       !.before = n]
        ELSE [h EXCEPT !.objs = [@ EXCEPT ![h.cur] =
                                    StateObj(@.todos, v.currentFilter)],
                       !.before = n]

(***************************************************************************)
(* Section 4 of app.js: rendering                                          *)
(*                                                                         *)
(* A list element is named by the renderTodoList() call that created it    *)
(* and its position: <<gen, i>>.                                           *)
(***************************************************************************)
\* renderActiveCount: the text of the counter.
CountText(count) ==
    IF count = 1 THEN <<1, "item left">> ELSE <<count, "items left">>

\* The index.html document before init() has run.
NewDocument ==
    [list |-> <<>>,          \* the li elements of #todo-list: id, title, completed
     pressed |-> "all",      \* the filter button marked active
     counter |-> <<0, "">>,  \* the text of #active-count
     clearHidden |-> TRUE,   \* #clear-completed is hidden
     emptyHidden |-> TRUE,   \* #empty-state is hidden
     emptyText |-> "",       \* the text of #empty-state
     footerHidden |-> TRUE,  \* #footer is hidden
     gen |-> 0,              \* renderTodoList() calls so far
     editing |-> {},         \* the li elements with the class editing
     sessions |-> <<>>]      \* the enterEditMode() calls that went on: the li,
                             \* todoId and currentTitle of each, its input (value,
                             \* in the document, focused), the timers its blur
                             \* listener has set, its calls of actions.editTodo,
                             \* and whether Escape was pressed in it

\* renderTodoList(todos): the li elements are replaced by new ones.
renderTodoList(todos) ==
    [i \in 1..Len(todos) |->
        [id |-> todos[i].id, title |-> todos[i].title, completed |-> Completed(todos[i])]]

\* renderEmptyState(filteredCount, totalCount): hidden, text.
renderEmptyState(filteredCount, totalCount, currentFilter) ==
    IF totalCount = 0 THEN <<FALSE, "No todos yet. Add one above!">>
    ELSE IF filteredCount = 0 THEN <<FALSE, "No " \o currentFilter \o " todos.">>
    ELSE <<TRUE, "">>

\* renderState, had it shown the whole collection whatever the filter.
renderState_Unfiltered(doc, st, blurOnRemoval) ==
    [doc EXCEPT !.list = renderTodoList(st.todos)]

\* renderState, had it counted the items of the filtered view.
renderState_CountsView(doc, st, blurOnRemoval) ==
    [doc EXCEPT !.list = renderTodoList(getFilteredTodos(st)),
                !.counter = CountText(getActiveCount([st EXCEPT !.todos = getFilteredTodos(st)])),
                !.clearHidden = getCompletedCount(st) = 0,
                !.footerHidden = Len(st.todos) = 0]

\* renderState(): everything is computed from model.state.  Emptying the
\* list takes the input of an edit session out of the document; the browser
\* may or may not fire blur on a focused input that is removed, and the blur
\* listener then sets its timer.  The old li elements keep their classes.
renderState(doc, st, blurOnRemoval) ==
    LET filteredTodos == getFilteredTodos(st)
        empty == renderEmptyState(Len(filteredTodos), Len(st.todos), st.currentFilter)
    IN  [doc EXCEPT
            !.list = renderTodoList(filteredTodos),
            !.pressed = st.currentFilter,
            !.counter = CountText(getActiveCount(st)),
            !.clearHidden = getCompletedCount(st) = 0,
            !.emptyHidden = empty[1],
            !.emptyText = IF empty[1] THEN @ ELSE empty[2],
            !.footerHidden = Len(st.todos) = 0,
            !.gen = IF @ < MaxRenders THEN @ + 1 ELSE @,
            !.sessions = [k \in DOMAIN @ |->
                            [@[k] EXCEPT !.attached = FALSE,
                                         !.focused = FALSE,
                                         !.timers = IF doc.sessions[k].focused /\ blurOnRemoval
                                                    THEN @ + 1 ELSE @]]]

\* input.focus(): an input that is in the document takes the focus, and
\* the input that had it gets a blur event, whose listener sets a timer.
focus(doc, k) ==
    IF ~doc.sessions[k].attached THEN doc
    ELSE [doc EXCEPT !.sessions =
            [j \in DOMAIN @ |->
                IF j = k THEN [@[j] EXCEPT !.focused = TRUE]
                ELSE IF @[j].focused
                     THEN [@[j] EXCEPT !.focused = FALSE, !.timers = @ + 1]
                     ELSE @[j]]]

\* exitEditMode() of session k: the li loses the class editing and the
\* input, when it has a parent, is removed.
exitEditMode(doc, k, blurOnRemoval) ==
    LET s == doc.sessions[k]
    IN  [doc EXCEPT
            !.editing = @ \ {s.li},
            !.sessions[k] =
                IF s.attached
                THEN [@ EXCEPT !.attached = FALSE, !.focused = FALSE,
                               !.timers = IF s.focused /\ blurOnRemoval
                                          THEN @ + 1 ELSE @]
                ELSE @]

\* enterEditMode(li, todoId, currentTitle), the li not having the class
\* editing: the class is added and an input with the title appended.
enterEditMode(doc, li, todoId, currentTitle) ==
    [doc EXCEPT
        !.editing = @ \cup {li},
        !.sessions = Append(@, [li |-> li, todoId |-> todoId,
                                currentTitle |-> currentTitle, value |-> currentTitle,
                                attached |-> TRUE, focused |-> FALSE, timers |-> 0,
                                calls |-> 0, escaped |-> FALSE])]

\* Nothing has been held or written yet.
NoTrail ==
    [held |-> {},       \* the states model.state has had
     calls |-> 0,       \* save() calls so far
     failed |-> 0,      \* failed save() calls since the last one that succeeded
     recovered |-> 0]   \* what failed was when the last save() was called

(***************************************************************************)
(* The state machine                                                       *)
(***************************************************************************)
\* The mutations for which a call records whether it repeats the call before it.
Repeatable == {"toggleTodo", "clearCompleted"}

\* The operations of the model that change it.
Mutations ==
    {"addTodo", "toggleTodo", "deleteTodo", "editTodo", "setFilter", "clearCompleted"}

\* An exception leaves the call: one of the calls it makes lets one out.
CallFaults(op, title, write) ==
    \/ op \in {"addTodo", "editTodo"} /\ trimTitleFaults(title)
    \/ op \in Mutations /\ write \in WriteOutcomes /\ saveFaults(write)
    \/ op = "load" /\ loadFaults(storage, write = "failRead")

\* A call on the model: its name, its arguments (Undefined where it takes
\* none), what it returned, what became of the storage access it made, if
\* any, the in-memory state and the storage it was made on, for the
\* Repeatable mutations whether the call right before it was an accepted call
\* of the same mutation with the same id, whether an exception left the call,
\* whether its caller (the action of the same name; init() for load) went on
\* to call renderState(), and what that caller returned.
Call(op, id, title, filterType, ret, write) ==
    [op |-> op, id |-> id, title |-> title, filterType |-> filterType,
     ret |-> ret, write |-> write, pre |-> state, preStorage |-> storage,
     again |-> (op \in Repeatable /\ last.op = op /\ last.id = id /\ last.ret # Null),
     fault |-> CallFaults(op, title, write),
     rendered |-> (op = "load" \/ (op \in Mutations /\ actionsRender(op, ret))),
     reported |-> actionsReturn(op, ret)]

\* The page has been opened and nothing has been called yet.
Constructed ==
    [op |-> "construct", id |-> Undefined, title |-> Undefined,
     filterType |-> Undefined, ret |-> Undefined, write |-> "none",
     pre |-> DefaultState, preStorage |-> Store(Missing, Missing),
     again |-> FALSE, fault |-> FALSE, rendered |-> FALSE, reported |-> Undefined]

\* A page has been opened: the script has constructed model.state, init() has
\* not yet run.
Init ==
    /\ state = DefaultState
    /\ storage \in SeedStores
    /\ loaded = FALSE
    /\ nextId = 0
    /\ saves = 0
    /\ last = Constructed
    /\ sw = NoWorker
    /\ heap = NewHeap
    /\ trail = NoTrail
    /\ ui = NewDocument

\* model.load(), called by init().
Hydrate ==
    /\ ~loaded
    /\ \E readThrows \in BOOLEAN :
          /\ state' = load(state, storage, readThrows)
          /\ last' = Call("load", Undefined, Undefined, Undefined, Undefined,
                          IF readThrows THEN "failRead" ELSE "none")
    /\ loaded' = TRUE
    /\ UNCHANGED <<storage, nextId, saves>>

\* init(): model.load(), after which the event listeners are attached.
CallLoad ==
    /\ Hydrate
    /\ UNCHANGED <<sw, heap, trail, ui>>

\* The page goes away and a new one is opened: the script runs again and
\* constructs model.state.
Unload ==
    /\ loaded
    /\ state' = DefaultState
    /\ loaded' = FALSE
    /\ last' = Constructed
    /\ UNCHANGED <<storage, nextId, saves>>

\* The user reloads the page.
Reload ==
    /\ Unload
    /\ UNCHANGED <<sw, heap, trail, ui>>

\* A mutation rejected: it returns null and nothing else happens.
Rejected(op, id, title, filterType) ==
    /\ last' = Call(op, id, title, filterType, Null, "none")
    /\ UNCHANGED <<state, storage, loaded, nextId, saves, sw, heap, trail, ui>>

\* A mutation accepted: this.save(newState); return newState.
Accepted(op, id, title, filterType, newState) ==
    \E w \in WriteOutcomes :
        /\ w # "ok" => saves < MaxFaultySaves
        /\ state' = save(storage, newState, w).state
        /\ storage' = save(storage, newState, w).storage
        /\ saves' = IF saves < MaxFaultySaves THEN saves + 1 ELSE saves
        /\ last' = Call(op, id, title, filterType, newState, w)
        /\ UNCHANGED <<loaded, sw, heap, trail, ui>>

CallAddTodo ==
    /\ loaded
    /\ nextId < MaxIds
    /\ Len(state.todos) < MaxTodos
    /\ \E title \in RawTitles, now \in Instants :
          LET r == addTodo(state, title, generateId(nextId + 1), now)
          IN  \/ r = Null /\ Rejected("addTodo", Undefined, title, Undefined)
                          /\ now = 1000
              \/ r # Null /\ Accepted("addTodo", Undefined, title, Undefined, r)
                          /\ nextId' = nextId + 1

CallToggleTodo ==
    /\ loaded
    /\ \E id \in IdInputs(state) :
          LET r == toggleTodo(state, id)
          IN  \/ r = Null /\ Rejected("toggleTodo", id, Undefined, Undefined)
              \/ r # Null /\ Accepted("toggleTodo", id, Undefined, Undefined, r)
                          /\ UNCHANGED nextId

CallDeleteTodo ==
    /\ loaded
    /\ \E id \in IdInputs(state) :
          LET r == deleteTodo(state, id)
          IN  \/ r = Null /\ Rejected("deleteTodo", id, Undefined, Undefined)
              \/ r # Null /\ Accepted("deleteTodo", id, Undefined, Undefined, r)
                          /\ UNCHANGED nextId

CallEditTodo ==
    /\ loaded
    /\ \E in \in EditInputs(state) :
          LET id == in[1]
              newTitle == in[2]
              r == editTodo(state, id, newTitle)
          IN  \/ r = Null /\ Rejected("editTodo", id, newTitle, Undefined)
              \/ r # Null /\ Accepted("editTodo", id, newTitle, Undefined, r)
                          /\ UNCHANGED nextId

CallSetFilter ==
    /\ loaded
    /\ \E filterType \in FilterInputs :
          LET r == setFilter(state, filterType)
          IN  \/ r = Null /\ Rejected("setFilter", Undefined, Undefined, filterType)
              \/ r # Null /\ Accepted("setFilter", Undefined, Undefined, filterType, r)
                          /\ UNCHANGED nextId

CallClearCompleted ==
    /\ loaded
    /\ Accepted("clearCompleted", Undefined, Undefined, Undefined, clearCompleted(state))
    /\ UNCHANGED nextId

\* A query: it returns a value computed from this.state and assigns nothing.
Queried(op, ret) ==
    /\ last' = Call(op, Undefined, Undefined, Undefined, ret, "none")
    /\ UNCHANGED <<state, storage, loaded, nextId, saves, sw, heap, trail, ui>>

CallGetActiveCount ==
    /\ loaded
    /\ Queried("getActiveCount", JsNumber(getActiveCount(state)))

CallGetCompletedCount ==
    /\ loaded
    /\ Queried("getCompletedCount", JsNumber(getCompletedCount(state)))

CallGetFilteredTodos ==
    /\ loaded
    /\ Queried("getFilteredTodos", JsonArray(getFilteredTodos(state)))

Next ==
    \/ CallLoad
    \/ Reload
    \/ CallAddTodo
    \/ CallToggleTodo
    \/ CallDeleteTodo
    \/ CallEditTodo
    \/ CallSetFilter
    \/ CallClearCompleted
    \/ CallGetActiveCount
    \/ CallGetCompletedCount
    \/ CallGetFilteredTodos

Spec == Init /\ [][Next]_vars

(***************************************************************************)
(* The page together with its service worker                               *)
(***************************************************************************)
\* An event delivered to a handler of service-worker.js or to a listener of
\* registerServiceWorker(), and the state and storage it was delivered on;
\* for a fetch event also the request (id) and, as ret, what the cache held
\* for it, what the network came to, and what respondWith was given.
Event(name) == [Constructed EXCEPT !.op = name, !.pre = state, !.preStorage = storage]

WorkerEvents ==
    {"install", "fetch", "activate", "message", "updatefound", "statechange",
     "controllerchange"}

\* The newest worker of the registration.
Newest == IF sw.installing # 0 THEN sw.installing
          ELSE IF sw.waiting # 0 THEN sw.waiting ELSE sw.active

\* The page is opened on an origin that may hold a cache of an earlier release
\* and that holds two stored items and a filter.
InitSW ==
    /\ state = DefaultState
    /\ storage = Store(JsonText(<<StoredTodo("s1", TitleAB, FALSE, 2000),
                                  StoredTodo("s2", TitleMax, TRUE, 1000)>>),
                       FilterText("all"))
    /\ loaded = FALSE
    /\ nextId = 0
    /\ saves = 0
    /\ last = Constructed
    /\ sw \in {NoWorker, [NoWorker EXCEPT !.caches = {OldCache}]}
    /\ heap = NewHeap
    /\ trail = NoTrail
    /\ ui = NewDocument

\* init(): model.load(), then registerServiceWorker() calls register() and
\* attaches its listeners.  A page opened under an active worker is
\* controlled by it.
PageInit ==
    /\ Hydrate
    /\ sw' = [sw EXCEPT !.page = [NewPage EXCEPT !.registered = TRUE],
                        !.controller = sw.active]
    /\ UNCHANGED <<heap, trail, ui>>

\* The user chooses a filter.
UserStep ==
    /\ ~sw.page.navigating
    /\ CallSetFilter

\* A new version of service-worker.js is put on the server.
Deploy ==
    /\ sw.deployed < MaxVersions
    /\ sw' = [sw EXCEPT !.deployed = @ + 1]
    /\ UNCHANGED <<state, storage, loaded, nextId, saves, last, heap, trail, ui>>

\* register() or an update check finds a script the registration does not
\* have: a worker for it starts installing and updatefound is fired.
UpdateFound ==
    /\ loaded
    /\ sw.page.registered
    /\ sw.installing = 0
    /\ sw.deployed > Newest
    /\ sw' = [sw EXCEPT !.installing = sw.deployed,
                        !.page = updatefound(sw.page, sw.deployed)]
    /\ last' = Event("updatefound")
    /\ UNCHANGED <<state, storage, loaded, nextId, saves, heap, trail, ui>>

\* The install event of the installing worker; the worker is installed when
\* addAll succeeds and discarded when it fails.
Install ==
    /\ sw.installing # 0
    /\ sw.signal = "none"
    /\ \E addAllOk \in BOOLEAN :
          LET o == install(Origin(sw.caches, sw.entries, storage), addAllOk, sw.deployed)
          IN  /\ sw' = [sw EXCEPT !.caches = o.caches,
                                  !.entries = o.entries,
                                  !.installing = 0,
                                  !.waiting = IF addAllOk THEN sw.installing ELSE @,
                                  !.skipWaiting = IF addAllOk THEN FALSE ELSE @,
                                  !.signal = IF addAllOk THEN "installed" ELSE "redundant"]
              /\ storage' = o.storage
    /\ last' = Event("install")
    /\ UNCHANGED <<state, loaded, nextId, saves, heap, trail, ui>>

\* The statechange event the page listens to, if it still listens.
StateChange ==
    /\ sw.signal # "none"
    /\ sw' = [sw EXCEPT !.signal = "none",
                        !.page = IF sw.page.watched # 0
                                 THEN statechange(sw.page, sw.signal, sw.controller)
                                 ELSE @]
    /\ last' = Event("statechange")
    /\ UNCHANGED <<state, storage, loaded, nextId, saves, heap, trail, ui>>

\* The user clicks Update on the banner: newWorker.postMessage('skipWaiting').
ClickUpdate ==
    /\ sw.page.banner # 0
    /\ sw.inbox = NoMessage
    /\ sw.asked # sw.page.banner
    /\ sw' = [sw EXCEPT !.inbox = [to |-> sw.page.banner, data |-> "skipWaiting"],
                        !.asked = sw.page.banner]
    /\ UNCHANGED <<state, storage, loaded, nextId, saves, last, heap, trail, ui>>

\* The user clicks the dismiss button: banner.remove().
Dismiss ==
    /\ sw.page.banner # 0
    /\ sw' = [sw EXCEPT !.page.banner = 0, !.page.bannerUnder = 0]
    /\ UNCHANGED <<state, storage, loaded, nextId, saves, last, heap, trail, ui>>

\* The message event: the message the page posted reaches its worker, or some
\* other message reaches the waiting worker.  skipWaiting() has an effect on
\* a waiting worker only.
Message ==
    /\ \E m \in {sw.inbox, [to |-> sw.waiting, data |-> "ping"]} :
          /\ m.to # 0
          /\ m.data = "ping" => last.op # "message"
          /\ sw' = [sw EXCEPT !.inbox = IF m = sw.inbox THEN NoMessage ELSE @,
                              !.skipWaiting = IF m.to = sw.waiting
                                              THEN message(@, m.data) ELSE @]
          /\ last' = [Event("message") EXCEPT !.title = JsString(m.data)]
    /\ UNCHANGED <<state, storage, loaded, nextId, saves, heap, trail, ui>>

\* The activate event: the waiting worker becomes the active one when no
\* page is controlled by another worker or when it called skipWaiting(); its
\* handler starts the chain it gives to waitUntil.
Activate ==
    /\ sw.waiting # 0
    /\ sw.signal = "none"
    /\ sw.chain = <<>>
    /\ sw.controller = 0 \/ sw.skipWaiting
    /\ sw' = [sw EXCEPT !.active = sw.waiting,
                        !.waiting = 0,
                        !.skipWaiting = FALSE,
                        !.chain = activateSteps]
    /\ last' = Event("activate")
    /\ UNCHANGED <<state, storage, loaded, nextId, saves, heap, trail, ui>>

\* The next step of the activate handler's chain: the deletions, or
\* clients.claim(), which makes the worker the controller of the open page.
ActivateStep ==
    /\ sw.chain # <<>>
    /\ LET o == activate(Origin(sw.caches, sw.entries, storage))
       IN  IF Head(sw.chain) = "delete"
           THEN /\ sw' = [sw EXCEPT !.chain = Tail(@),
                                    !.caches = o.caches,
                                    !.entries = o.entries,
                                    !.deleted = @ \cup (sw.caches \ o.caches)]
                /\ storage' = o.storage
           ELSE /\ sw' = [sw EXCEPT !.chain = Tail(@),
                                    !.controller = sw.active,
                                    !.changed = sw.page.registered]
                /\ storage' = storage
    /\ last' = Event("activate")
    /\ UNCHANGED <<state, loaded, nextId, saves, heap, trail, ui>>

\* The fetch event of a request the controlled page makes.
Fetch ==
    /\ loaded
    /\ sw.controller # 0
    /\ \E request \in Requests, network \in NetworkOutcomes(sw.deployed) :
          LET r == fetchHandler(Origin(sw.caches, sw.entries, storage), request, network)
          IN  /\ sw' = [sw EXCEPT !.caches = r.origin.caches,
                                  !.entries = r.origin.entries]
              /\ storage' = r.origin.storage
              /\ last' = [Event("fetch") EXCEPT
                             !.id = JsString(request),
                             !.ret = [cached |-> sw.entries[request],
                                      network |-> network,
                                      respond |-> r.respond,
                                      issued |-> r.issued]]
    /\ UNCHANGED <<state, loaded, nextId, saves, heap, trail, ui>>

\* The controllerchange event on the page.
ControllerChange ==
    /\ sw.changed
    /\ sw.page.registered
    /\ sw' = [sw EXCEPT !.changed = FALSE, !.page = controllerchange(sw.page)]
    /\ last' = Event("controllerchange")
    /\ UNCHANGED <<state, storage, loaded, nextId, saves, heap, trail, ui>>

\* The reload the page asked for takes place.
Navigate ==
    /\ sw.page.navigating
    /\ Unload
    /\ sw' = [sw EXCEPT !.page = NewPage, !.changed = FALSE]
    /\ UNCHANGED <<heap, trail, ui>>

NextSW ==
    \/ PageInit
    \/ UserStep
    \/ Deploy
    \/ UpdateFound
    \/ Install
    \/ StateChange
    \/ ClickUpdate
    \/ Dismiss
    \/ Message
    \/ Activate
    \/ ActivateStep
    \/ Fetch
    \/ ControllerChange
    \/ Navigate

SpecSW == InitSW /\ [][NextSW]_vars

(***************************************************************************)
(* The model and the objects it constructs                                 *)
(***************************************************************************)
\* The page is opened on storage that is empty, unreadable as JSON, or holds
\* two items and a filter.
InitObjects ==
    /\ state = DefaultState
    /\ storage \in
          { Store(Missing, Missing),
            Store([kind |-> "garbage"], FilterText("active")),
            Store(JsonText(<<StoredTodo("s1", TitleAB, FALSE, 2000),
                             StoredTodo("s2", TitleMax, TRUE, 1000)>>),
                  FilterText("completed")) }
    /\ loaded = FALSE
    /\ nextId = 0
    /\ saves = 0
    /\ last = Constructed
    /\ sw = NoWorker
    /\ heap = NewHeap
    /\ trail = NoTrail
    /\ ui = NewDocument

\* init(): model.load().
LoadObjects ==
    /\ \E readThrows \in BOOLEAN :
          /\ Hydrate
          /\ last'.write = (IF readThrows THEN "failRead" ELSE "none")
          /\ heap' = loadObjects(heap, storage, readThrows)
    /\ UNCHANGED <<sw, trail, ui>>

\* A mutation accepted: the state is written and newState, an object, is
\* assigned to this.state and returned.
AcceptedObjects(op, id, title, filterType, newState, h) ==
    /\ Cardinality(heap.returned) < MaxReturned
    /\ state' = newState
    /\ storage' = save(storage, newState, "ok").storage
    /\ last' = Call(op, id, title, filterType, newState, "ok")
    /\ heap' = h
    /\ UNCHANGED <<loaded, saves, sw, trail, ui>>

AddTodoObjects ==
    /\ loaded
    /\ nextId < MaxIds
    /\ \E title \in {Null, JsString(<<Run(" ", 2)>> \o TitleAB \o <<Run("\t", 1)>>)} :
          LET r == addTodo(state, title, generateId(nextId + 1), 1000)
          IN  \/ r = Null /\ Rejected("addTodo", Undefined, title, Undefined)
              \/ r # Null /\ AcceptedObjects("addTodo", Undefined, title, Undefined, r,
                                             addTodoObjects(heap, Head(r.todos)))
                          /\ nextId' = nextId + 1

ToggleTodoObjects ==
    /\ loaded
    /\ \E id \in IdInputs(state) :
          LET r == toggleTodo(state, id)
          IN  \/ r = Null /\ Rejected("toggleTodo", id, Undefined, Undefined)
              \/ r # Null /\ AcceptedObjects("toggleTodo", id, Undefined, Undefined, r,
                                             toggleTodoObjects(heap, id.v))
                          /\ UNCHANGED nextId

DeleteTodoObjects ==
    /\ loaded
    /\ \E id \in IdInputs(state) :
          LET r == deleteTodo(state, id)
          IN  \/ r = Null /\ Rejected("deleteTodo", id, Undefined, Undefined)
              \/ r # Null /\ AcceptedObjects("deleteTodo", id, Undefined, Undefined, r,
                                             deleteTodoObjects(heap, id.v))
                          /\ UNCHANGED nextId

EditTodoObjects ==
    /\ loaded
    /\ \E id \in IdInputs(state),
          newTitle \in {Null, JsString(<<Blank>> \o TitleMax \o <<Blank>>)} :
          LET r == editTodo(state, id, newTitle)
          IN  \/ r = Null /\ Rejected("editTodo", id, newTitle, Undefined)
              \/ r # Null /\ AcceptedObjects("editTodo", id, newTitle, Undefined, r,
                                             editTodoObjects(heap, id.v, newTitle))
                          /\ UNCHANGED nextId

SetFilterObjects ==
    /\ loaded
    /\ \E filterType \in FilterInputs :
          LET r == setFilter(state, filterType)
          IN  \/ r = Null /\ Rejected("setFilter", Undefined, Undefined, filterType)
              \/ r # Null /\ AcceptedObjects("setFilter", Undefined, Undefined, filterType, r,
                                             setFilterObjects(heap, filterType.v))
                          /\ UNCHANGED nextId

ClearCompletedObjects ==
    /\ loaded
    /\ AcceptedObjects("clearCompleted", Undefined, Undefined, Undefined,
                       clearCompleted(state), clearCompletedObjects(heap))
    /\ UNCHANGED nextId

NextObjects ==
    \/ LoadObjects
    \/ AddTodoObjects
    \/ ToggleTodoObjects
    \/ DeleteTodoObjects
    \/ EditTodoObjects
    \/ SetFilterObjects
    \/ ClearCompletedObjects

SpecObjects == InitObjects /\ [][NextObjects]_vars

(***************************************************************************)
(* The model under any pattern of failing writes                           *)
(***************************************************************************)
\* The page is opened on storage that is empty or that holds what an earlier
\* session held: one item and the filter all.
InitFaults ==
    /\ state = DefaultState
    /\ storage \in
          { Store(Missing, Missing),
            Store(JsonText(<<StoredTodo("s1", TitleAB, FALSE, 1000)>>), FilterText("all")) }
    /\ loaded = FALSE
    /\ nextId = 0
    /\ saves = 0
    /\ last = Constructed
    /\ sw = NoWorker
    /\ heap = NewHeap
    /\ trail = [NoTrail EXCEPT !.held = {DefaultState, load(DefaultState, storage, FALSE)}]
    /\ ui = NewDocument

\* init(): model.load().
FaultsLoad ==
    /\ Hydrate
    /\ trail' = [trail EXCEPT !.held = @ \cup {state'}]
    /\ UNCHANGED <<sw, heap, ui>>

\* A mutation accepted: this.save(newState), each of whose writes may fail.
AcceptedFaults(op, id, title, filterType, newState) ==
    /\ trail.calls < MaxPersists
    /\ \E w \in WriteOutcomes :
          /\ state' = save(storage, newState, w).state
          /\ storage' = save(storage, newState, w).storage
          /\ last' = Call(op, id, title, filterType, newState, w)
          /\ trail' = [held |-> trail.held \cup {newState},
                       calls |-> trail.calls + 1,
                       failed |-> IF w = "ok" THEN 0 ELSE trail.failed + 1,
                       recovered |-> trail.failed]
    /\ UNCHANGED <<loaded, saves, sw, heap, ui>>

FaultsAddTodo ==
    /\ loaded
    /\ nextId < MaxIds
    /\ Len(state.todos) < MaxTodos
    /\ LET title == JsString(<<Run(" ", 2)>> \o TitleAB \o <<Run("\t", 1)>>)
           r == addTodo(state, title, generateId(nextId + 1), 2000)
       IN  /\ AcceptedFaults("addTodo", Undefined, title, Undefined, r)
           /\ nextId' = nextId + 1

FaultsToggleTodo ==
    /\ loaded
    /\ \E id \in IdInputs(state) :
          LET r == toggleTodo(state, id)
          IN  /\ r # Null
              /\ AcceptedFaults("toggleTodo", id, Undefined, Undefined, r)
              /\ UNCHANGED nextId

FaultsSetFilter ==
    /\ loaded
    /\ \E filterType \in FilterInputs :
          LET r == setFilter(state, filterType)
          IN  /\ r # Null
              /\ AcceptedFaults("setFilter", Undefined, Undefined, filterType, r)
              /\ UNCHANGED nextId

FaultsClearCompleted ==
    /\ loaded
    /\ AcceptedFaults("clearCompleted", Undefined, Undefined, Undefined, clearCompleted(state))
    /\ UNCHANGED nextId

NextFaults ==
    \/ FaultsLoad
    \/ FaultsAddTodo
    \/ FaultsToggleTodo
    \/ FaultsSetFilter
    \/ FaultsClearCompleted

SpecFaults == InitFaults /\ [][NextFaults]_vars

(***************************************************************************)
(* The page: user intents through the actions object, each followed by the *)
(* render it calls                                                         *)
(***************************************************************************)
\* What localStorage holds when the page is opened: nothing, an active and a
\* completed item under the filter completed, or items one of which has no
\* completed field.
ViewStores ==
    { Store(Missing, Missing),
      Store(JsonText(<<StoredTodo("s1", TitleAB, FALSE, 1000),
                       StoredTodo("s2", TitleMax, TRUE, 2000)>>),
            FilterText("completed")),
      Store(JsonText(<<JsonObject([id |-> JsString("s1"), title |-> JsString(TitleAB)]),
                       StoredTodo("s2", TitleAB, TRUE, 1000)>>),
            FilterText("")) }

InitView ==
    /\ state = DefaultState
    /\ storage \in ViewStores
    /\ loaded = FALSE
    /\ nextId = 0
    /\ saves = 0
    /\ last = Constructed
    /\ sw = NoWorker
    /\ heap = NewHeap
    /\ trail = NoTrail
    /\ ui = NewDocument

\* init(): model.load(); renderState().
ViewInit ==
    /\ Hydrate
    /\ ui' = renderState(ui, state', FALSE)
    /\ UNCHANGED <<sw, heap, trail>>

\* actions.<op>: the model is called and, if actionsRender says so,
\* renderState() after it.  r is what the model returns, doc the document
\* as the caller of the action left it.
Dispatch(doc, op, id, title, filterType, r) ==
    /\ \/ /\ r = Null
          /\ last' = Call(op, id, title, filterType, Null, "none")
          /\ UNCHANGED <<state, storage, saves>>
       \/ /\ r # Null
          /\ \E w \in WriteOutcomes :
                /\ w # "ok" => saves < MaxFaultySaves
                /\ state' = save(storage, r, w).state
                /\ storage' = save(storage, r, w).storage
                /\ saves' = IF saves < MaxFaultySaves THEN saves + 1 ELSE saves
                /\ last' = Call(op, id, title, filterType, r, w)
    /\ \E blurOnRemoval \in BOOLEAN :
          ui' = IF actionsRender(op, r) THEN renderState(doc, state', blurOnRemoval) ELSE doc
    /\ UNCHANGED <<loaded, sw, heap, trail>>

ActionsAddTodo ==
    /\ loaded
    /\ nextId < MaxIds
    /\ Len(state.todos) < MaxTodos
    /\ \E title \in RawTitles :
          LET r == addTodo(state, title, generateId(nextId + 1), 3000)
          IN  /\ ~TrimThrows(title)
              /\ Dispatch(ui, "addTodo", Undefined, title, Undefined, r)
              /\ nextId' = IF r = Null THEN nextId ELSE nextId + 1

ActionsToggleTodo ==
    /\ loaded
    /\ \E id \in IdInputs(state) :
          /\ Dispatch(ui, "toggleTodo", id, Undefined, Undefined, toggleTodo(state, id))
          /\ UNCHANGED nextId

ActionsDeleteTodo ==
    /\ loaded
    /\ \E id \in IdInputs(state) :
          /\ Dispatch(ui, "deleteTodo", id, Undefined, Undefined, deleteTodo(state, id))
          /\ UNCHANGED nextId

ActionsEditTodo ==
    /\ loaded
    /\ \E in \in EditInputs(state) :
          /\ ~TrimThrows(in[2])
          /\ Dispatch(ui, "editTodo", in[1], in[2], Undefined, editTodo(state, in[1], in[2]))
          /\ UNCHANGED nextId

ActionsSetFilter ==
    /\ loaded
    /\ \E filterType \in FilterInputs :
          /\ Dispatch(ui, "setFilter", Undefined, Undefined, filterType, setFilter(state, filterType))
          /\ UNCHANGED nextId

ActionsClearCompleted ==
    /\ loaded
    /\ Dispatch(ui, "clearCompleted", Undefined, Undefined, Undefined, clearCompleted(state))
    /\ UNCHANGED nextId

NextView ==
    \/ ViewInit
    \/ ActionsAddTodo
    \/ ActionsToggleTodo
    \/ ActionsDeleteTodo
    \/ ActionsEditTodo
    \/ ActionsSetFilter
    \/ ActionsClearCompleted

SpecView == InitView /\ [][NextView]_vars

(***************************************************************************)
(* Section 5 of app.js: inline edit sessions                               *)
(***************************************************************************)
TitleCD == <<Run("c", 1), Run("d", 1)>>

\* What the user leaves in the input: another title with spaces around it,
\* or blanks.
EditValues == { <<Blank>> \o TitleCD \o <<Blank>>, <<Run(" ", 2)>> }

InitEdit ==
    /\ state = DefaultState
    /\ storage = Store(JsonText(<<StoredTodo("s1", TitleAB, FALSE, 2000),
                                  StoredTodo("s2", TitleAB, TRUE, 1000)>>),
                       FilterText("all"))
    /\ loaded = FALSE
    /\ nextId = 0
    /\ saves = 0
    /\ last = Constructed
    /\ sw = NoWorker
    /\ heap = NewHeap
    /\ trail = NoTrail
    /\ ui = NewDocument

\* Only the document changes.
DocumentOnly ==
    UNCHANGED <<state, storage, loaded, nextId, saves, last, sw, heap, trail>>

\* dblclick on a title, or Enter on it: enterEditMode, which returns at once
\* for an li that has the class editing.
EnterEdit ==
    /\ loaded
    /\ Len(ui.sessions) < MaxSessions
    /\ \E i \in 1..Len(ui.list) :
          LET li == <<ui.gen, i>>
          IN  /\ li \notin ui.editing
              /\ ui' = focus(enterEditMode(ui, li, ui.list[i].id, ui.list[i].title),
                             Len(ui.sessions) + 1)
    /\ DocumentOnly

\* The user types in the input that has the focus.
Type ==
    /\ \E k \in DOMAIN ui.sessions, v \in EditValues :
          /\ ui.sessions[k].focused
          /\ ui.sessions[k].value # v
          /\ ui' = [ui EXCEPT !.sessions[k].value = v]
    /\ DocumentOnly

\* saveEdit() of session k, doc being the document as the listener that
\* calls it left it.
saveEdit(doc, k) ==
    LET s == doc.sessions[k]
        newTitle == trimTitle(JsString(s.value))
    IN  IF newTitle = <<>>
        THEN /\ ui' = focus(doc, k)
             /\ DocumentOnly
        ELSE IF newTitle # s.currentTitle
        THEN /\ doc.gen < MaxRenders
             /\ Dispatch([doc EXCEPT !.sessions[k].calls = @ + 1],
                         "editTodo", JsString(s.todoId), JsString(newTitle), Undefined,
                         editTodo(state, JsString(s.todoId), JsString(newTitle)))
             /\ UNCHANGED nextId
        ELSE /\ \E blurOnRemoval \in BOOLEAN : ui' = exitEditMode(doc, k, blurOnRemoval)
             /\ DocumentOnly

\* keydown with the key Enter on the input.
KeyEnter ==
    \E k \in DOMAIN ui.sessions :
        /\ ui.sessions[k].focused
        /\ saveEdit(ui, k)

\* keydown with the key Escape on the input.
KeyEscape ==
    /\ \E k \in DOMAIN ui.sessions, blurOnRemoval \in BOOLEAN :
          /\ ui.sessions[k].focused
          /\ ui' = exitEditMode([ui EXCEPT !.sessions[k].escaped = TRUE], k, blurOnRemoval)
    /\ DocumentOnly

\* The input loses the focus to something outside the list: the blur
\* listener sets its timer.
Blur ==
    /\ \E k \in DOMAIN ui.sessions :
          /\ ui.sessions[k].focused
          /\ ui' = [ui EXCEPT !.sessions[k].focused = FALSE, !.sessions[k].timers = @ + 1]
    /\ DocumentOnly

\* A timer of the blur listener runs out.
Timeout ==
    \E k \in DOMAIN ui.sessions :
        /\ ui.sessions[k].timers > 0
        /\ LET doc == [ui EXCEPT !.sessions[k].timers = @ - 1]
           IN  IF ui.sessions[k].li \in ui.editing
               THEN saveEdit(doc, k)
               ELSE ui' = doc /\ DocumentOnly

NextEdit ==
    \/ ViewInit
    \/ EnterEdit
    \/ Type
    \/ KeyEnter
    \/ KeyEscape
    \/ Blur
    \/ Timeout

SpecEdit == InitEdit /\ [][NextEdit]_vars

(***************************************************************************)
(* Vocabulary of the properties                                            *)
(***************************************************************************)
\* The last step was a call of a mutation.
IsCall == last.op \in Mutations

\* The last call was accepted: it returned a state.
WasAccepted == IsCall /\ last.ret # Null

WriteFailed == last.write \in {"failTodos", "failFilter"}

\* A title create and edit must reject: not a string, empty after trimming,
\* or longer than the bound after trimming.
TitleRejectable(title) ==
    \/ title.type # "string"
    \/ Trim(title.v) = <<>>
    \/ StrLen(Trim(title.v)) > MaxTitleLen

\* No item of todos has this id.
IdUnknown(id, todos) ==
    \/ id.type # "string"
    \/ \A i \in 1..Len(todos) : todos[i].id # id.v

\* The last call had an argument the Store must reject.
InvalidCall ==
    \/ last.op \in {"addTodo", "editTodo"} /\ TitleRejectable(last.title)
    \/ last.op \in {"toggleTodo", "deleteTodo", "editTodo"}
          /\ IdUnknown(last.id, last.pre.todos)
    \/ last.op = "setFilter"
          /\ ~(last.filterType.type = "string"
               /\ last.filterType.v \in {"all", "active", "completed"})

\* Durable storage holds exactly the serialization of st.
HoldsStateOf(store, st) ==
    /\ store[STORAGE_KEY] = JSONstringify(st.todos)
    /\ store[FILTER_KEY] = FilterText(st.currentFilter)

Synced == HoldsStateOf(storage, state)

\* The items durable storage holds, as records: the well-formed records of the
\* stored array, in stored order; none when nothing parseable is stored.
DurableItems(store) ==
    IF store[STORAGE_KEY].kind = "json" /\ store[STORAGE_KEY].value.type = "array"
    THEN SelectValid(store[STORAGE_KEY].value.items)
    ELSE <<>>

\* The filter durable storage holds; the default when the key is absent.
DurableFilter(store) ==
    IF store[FILTER_KEY].kind = "text" THEN store[FILTER_KEY].v ELSE "all"

CreatedAtOf(t) == IF "createdAt" \in DOMAIN t THEN t.createdAt ELSE -1

\* The (id, createdAt) pairs of a collection.
Keys(todos) == {<<todos[i].id, CreatedAtOf(todos[i])>> : i \in 1..Len(todos)}

(***************************************************************************)
(* C1  Rejection purity.  A call with a title that is not a string, is     *)
(* empty after trimming or is longer than 500 after trimming (addTodo,     *)
(* editTodo), with an id that is not in the collection (toggleTodo,        *)
(* deleteTodo, editTodo) or with a filter outside {all, active, completed} *)
(* (setFilter) returns null; and every call that returns null leaves the   *)
(* in-memory state and durable storage as they were and makes no write.    *)
(***************************************************************************)
C1_RejectionPurity ==
    /\ InvalidCall => last.ret = Null
    /\ (IsCall /\ last.ret = Null) =>
          /\ state = last.pre
          /\ storage = last.preStorage
          /\ last.write = "none"

\* An edit of a non-empty collection was rejected for its unknown id.
C1_Witness ==
    /\ last.op = "editTodo"
    /\ last.ret = Null
    /\ Len(state.todos) > 0
    /\ ~TitleRejectable(last.title)
    /\ IdUnknown(last.id, state.todos)

(***************************************************************************)
(* C2  As claimed: in every state after hydrate, the items and the filter  *)
(* durable storage holds equal the in-memory items and filter.             *)
(***************************************************************************)
C2_NeverDiverge ==
    loaded =>
        /\ DurableItems(storage) = state.todos
        /\ DurableFilter(storage) = state.currentFilter

(***************************************************************************)
(* C2  As amended: right after an accepted mutation whose two writes went  *)
(* through, durable storage holds exactly the serialization of the         *)
(* in-memory state; and a mutation, accepted or rejected, made while       *)
(* storage held the in-memory state leaves it so unless a write failed.    *)
(***************************************************************************)
C2_SyncedAfterWrite ==
    /\ last.write = "ok" => Synced
    /\ (IsCall /\ ~WriteFailed /\ HoldsStateOf(last.preStorage, last.pre)) => Synced

\* A filter change on a two-item collection was written through.
C2_Witness ==
    /\ last.op = "setFilter"
    /\ last.write = "ok"
    /\ state.currentFilter # last.pre.currentFilter
    /\ Len(state.todos) = 2
    /\ ~HoldsStateOf(last.preStorage, last.pre)
    /\ Synced

(***************************************************************************)
(* C3  When a write fails during an accepted mutation, the call still      *)
(* returns the new state, the in-memory state is that new state, and       *)
(* nothing is written after the failing setItem: if the items write        *)
(* failed, storage is untouched; if the filter write failed, only the      *)
(* items key holds the new value.                                          *)
(***************************************************************************)
C3_WriteFailureKeepsMemory ==
    WriteFailed =>
        /\ last.ret # Null
        /\ state = last.ret
        /\ last.op \in {"toggleTodo", "deleteTodo", "editTodo", "clearCompleted"}
              => state.currentFilter = last.pre.currentFilter
        /\ last.op = "toggleTodo" => state = toggleTodo(last.pre, last.id)
        /\ last.op = "deleteTodo" => state = deleteTodo(last.pre, last.id)
        /\ last.op = "editTodo" => state = editTodo(last.pre, last.id, last.title)
        /\ last.op = "setFilter" => state = setFilter(last.pre, last.filterType)
        /\ last.op = "clearCompleted" => state = clearCompleted(last.pre)
        /\ last.op = "addTodo" =>
              state = addTodo(last.pre, last.title, Head(state.todos).id,
                              Head(state.todos).createdAt)
        /\ last.write = "failTodos" => storage = last.preStorage
        /\ last.write = "failFilter" =>
              /\ storage[FILTER_KEY] = last.preStorage[FILTER_KEY]
              /\ storage[STORAGE_KEY] = JSONstringify(state.todos)

\* A toggle changed memory although its write failed.
C3_Witness ==
    /\ last.op = "toggleTodo"
    /\ last.write = "failTodos"
    /\ state # last.pre
    /\ storage = last.preStorage

(***************************************************************************)
(* C4  As claimed: after an accepted mutation whose writes went through,   *)
(* a fresh page (state reset to the default, then load) holds the state    *)
(* held before: same items, same fields, same order, same filter.          *)
(***************************************************************************)
C4_RoundTrip ==
    (loaded /\ last.write = "ok") => load(DefaultState, storage, FALSE) = state

(***************************************************************************)
(* C5  As claimed: every title held is non-empty, is not whitespace only   *)
(* and is at most 500 long.                                                *)
(***************************************************************************)
C5_TitlesValid ==
    \A i \in 1..Len(state.todos) :
        /\ state.todos[i].title # <<>>
        /\ Trim(state.todos[i].title) # <<>>
        /\ StrLen(state.todos[i].title) <= 500

(***************************************************************************)
(* C6  As claimed: no two items held have the same id.                     *)
(***************************************************************************)
C6_UniqueIds ==
    \A i, j \in 1..Len(state.todos) :
        i # j => state.todos[i].id # state.todos[j].id

(***************************************************************************)
(* C7  An item's id and createdAt never change.  No call brings an         *)
(* (id, createdAt) pair into memory or storage that neither held before,   *)
(* except the pair of the item an accepted addTodo creates; toggleTodo,    *)
(* editTodo and setFilter keep every position's id and createdAt; and load *)
(* installs only pairs that storage holds.                                 *)
(***************************************************************************)
C7_IdAndCreatedAtImmutable ==
    /\ IsCall =>
          Keys(state.todos) \cup Keys(DurableItems(storage))
             \subseteq Keys(last.pre.todos) \cup Keys(DurableItems(last.preStorage))
                       \cup (IF last.op = "addTodo" /\ last.ret # Null
                             THEN Keys(<<Head(state.todos)>>) ELSE {})
    /\ (WasAccepted /\ last.op \in {"toggleTodo", "editTodo", "setFilter"}) =>
          /\ Len(state.todos) = Len(last.pre.todos)
          /\ \A i \in 1..Len(state.todos) :
                /\ state.todos[i].id = last.pre.todos[i].id
                /\ CreatedAtOf(state.todos[i]) = CreatedAtOf(last.pre.todos[i])
    /\ last.op = "load" => Keys(state.todos) \subseteq Keys(DurableItems(storage))

\* The only item created so far, stamped 2000, was edited.
C7_Witness ==
    /\ last.op = "editTodo"
    /\ last.ret # Null
    /\ last.id = JsString(generateId(1))
    /\ nextId = 1
    /\ state # last.pre
    /\ \E i \in 1..Len(state.todos) :
          state.todos[i].id = generateId(1) /\ state.todos[i].createdAt = 2000

(***************************************************************************)
(* C8  currentFilter is always one of all, active, completed.              *)
(***************************************************************************)
C8_FilterValid == state.currentFilter \in {"all", "active", "completed"}

\* A stored filter that is none of the three was not installed by load.
C8_Witness ==
    /\ last.op = "load"
    /\ storage[FILTER_KEY] = FilterText("bogus")
    /\ state.currentFilter = "all"

(***************************************************************************)
(* C9  addTodo and editTodo (of an existing id) accept a title whose       *)
(* trimmed length is exactly 500, whatever its untrimmed length, and       *)
(* store the trimmed title; they reject a title whose trimmed length is    *)
(* 501 and leave state and storage unchanged.                              *)
(***************************************************************************)
C9_TitleBoundary ==
    (last.op \in {"addTodo", "editTodo"} /\ last.title.type = "string") =>
        /\ (/\ StrLen(Trim(last.title.v)) = 500
            /\ last.op = "editTodo" => ~IdUnknown(last.id, last.pre.todos)) =>
              /\ last.ret # Null
              /\ state = last.ret
              /\ last.op = "addTodo" => Head(state.todos).title = Trim(last.title.v)
              /\ last.op = "editTodo" =>
                    \A i \in 1..Len(state.todos) :
                        state.todos[i].id = last.id.v
                           => state.todos[i].title = Trim(last.title.v)
        /\ StrLen(Trim(last.title.v)) = 501 =>
              /\ last.ret = Null
              /\ state = last.pre
              /\ storage = last.preStorage

\* A title of 502 characters that trims to 500 was accepted by addTodo.
C9_Witness ==
    /\ last.op = "addTodo"
    /\ last.ret # Null
    /\ StrLen(last.title.v) = 502
    /\ StrLen(Head(state.todos).title) = 500

(***************************************************************************)
(* C10  An accepted addTodo yields the new item first, with the trimmed    *)
(* input as title and completed = false, followed by exactly the items     *)
(* held before, unchanged and in their order; currentFilter is unchanged.  *)
(***************************************************************************)
C10_CreatePrepends ==
    (last.op = "addTodo" /\ last.ret # Null) =>
        /\ Len(state.todos) = Len(last.pre.todos) + 1
        /\ Head(state.todos).title = Trim(last.title.v)
        /\ Head(state.todos).completed = FALSE
        /\ Tail(state.todos) = last.pre.todos
        /\ state.currentFilter = last.pre.currentFilter

\* A padded title was added in front of an existing item.
C10_Witness ==
    /\ last.op = "addTodo"
    /\ last.ret # Null
    /\ Len(last.pre.todos) = 1
    /\ Len(state.todos) = 2
    /\ last.title.v # Head(state.todos).title
    /\ state.currentFilter = "active"

(***************************************************************************)
(* Vocabulary of the frame properties                                      *)
(***************************************************************************)
\* The positions of todos whose item has this id.
Positions(todos, id) == {i \in 1..Len(todos) : todos[i].id = id.v}

\* todos without its k-th item.
Without(todos, k) == SubSeq(todos, 1, k - 1) \o SubSeq(todos, k + 1, Len(todos))

\* a and b agree on every field other than f (a field absent in both agrees).
SameBut(a, b, f) ==
    /\ DOMAIN a \ {f} = DOMAIN b \ {f}
    /\ \A g \in DOMAIN a \ {f} : a[g] = b[g]

\* after is before with the completed flag of the k-th item inverted and
\* nothing else changed.
ToggledAt(before, after, k) ==
    /\ Len(after) = Len(before)
    /\ Completed(after[k]) = ~Completed(before[k])
    /\ SameBut(after[k], before[k], "completed")
    /\ \A i \in 1..Len(before) : i # k => after[i] = before[i]

\* after is before with the title of the k-th item replaced and nothing else
\* changed.
RetitledAt(before, after, k, title) ==
    /\ Len(after) = Len(before)
    /\ after[k].title = title
    /\ SameBut(after[k], before[k], "title")
    /\ \A i \in 1..Len(before) : i # k => after[i] = before[i]

(***************************************************************************)
(* C11  As claimed: an accepted toggleTodo(id) inverts the completed flag  *)
(* of one item, which has that id, and changes nothing else: the item's    *)
(* id, title and createdAt, every other item, the order and currentFilter  *)
(* are as before the call.                                                 *)
(***************************************************************************)
C11_ToggleFrame ==
    (last.op = "toggleTodo" /\ last.ret # Null) =>
        /\ state.currentFilter = last.pre.currentFilter
        /\ \E k \in Positions(last.pre.todos, last.id) :
              ToggledAt(last.pre.todos, state.todos, k)

(***************************************************************************)
(* C12  Two accepted toggleTodo calls with the same id, one right after    *)
(* the other, leave every item with its id, title, createdAt and position  *)
(* and with the completed flag it had before the first call (a flag that   *)
(* is absent reads as false), leave every item with another id as it was,  *)
(* and leave currentFilter as it was.                                      *)
(***************************************************************************)
C12_ToggleInvolution ==
    [][(/\ last.op = "toggleTodo" /\ last.ret # Null
        /\ last'.op = "toggleTodo" /\ last'.ret # Null
        /\ last'.id = last.id)
       => /\ Len(state'.todos) = Len(last.pre.todos)
          /\ state'.currentFilter = last.pre.currentFilter
          /\ \A i \in 1..Len(last.pre.todos) :
                /\ Completed(state'.todos[i]) = Completed(last.pre.todos[i])
                /\ SameBut(state'.todos[i], last.pre.todos[i], "completed")
                /\ last.pre.todos[i].id # last.id.v
                      => state'.todos[i] = last.pre.todos[i]]_vars

\* The item created first was toggled twice in a row, while another item is
\* held, and is not completed again.
C12_Witness ==
    /\ last.op = "toggleTodo"
    /\ last.ret # Null
    /\ last.again
    /\ last.id = JsString(generateId(1))
    /\ Len(state.todos) = 2
    /\ \E i \in 1..Len(state.todos) :
          /\ state.todos[i].id = generateId(1)
          /\ state.todos[i].completed = FALSE
          /\ last.pre.todos[i].completed = TRUE

(***************************************************************************)
(* C13  As claimed: an accepted deleteTodo(id) yields the previous         *)
(* collection without one item, which has that id: every other item is     *)
(* still there, unchanged and in its order, and currentFilter is as        *)
(* before.                                                                 *)
(***************************************************************************)
C13_DeleteFrame ==
    (last.op = "deleteTodo" /\ last.ret # Null) =>
        /\ state.currentFilter = last.pre.currentFilter
        /\ \E k \in Positions(last.pre.todos, last.id) :
              state.todos = Without(last.pre.todos, k)

(***************************************************************************)
(* C14  As claimed: an accepted editTodo(id, newTitle) sets the title of   *)
(* one item, which has that id, to the trimmed newTitle and keeps that     *)
(* item's id, completed and createdAt; every other item, the order and     *)
(* currentFilter are as before.                                            *)
(***************************************************************************)
C14_EditFrame ==
    (last.op = "editTodo" /\ last.ret # Null) =>
        /\ state.currentFilter = last.pre.currentFilter
        /\ \E k \in Positions(last.pre.todos, last.id) :
              RetitledAt(last.pre.todos, state.todos, k, Trim(last.title.v))

(***************************************************************************)
(* C15  An accepted setFilter(value) makes value the currentFilter and     *)
(* leaves the collection as it was: the same items, with the same fields,  *)
(* in the same order.                                                      *)
(***************************************************************************)
C15_SetFilterFrame ==
    (last.op = "setFilter" /\ last.ret # Null) =>
        /\ state.currentFilter = last.filterType.v
        /\ state.todos = last.pre.todos

\* The filter was switched to completed and the one active item of the two
\* held is still there.
C15_Witness ==
    /\ last.op = "setFilter"
    /\ last.ret # Null
    /\ last.filterType = JsString("completed")
    /\ last.pre.currentFilter # "completed"
    /\ Len(state.todos) = 2
    /\ \E i \in 1..2 : ~Completed(state.todos[i])
    /\ \E i \in 1..2 : Completed(state.todos[i])

(***************************************************************************)
(* C16  clearCompleted() never returns null, whatever the collection       *)
(* holds, and yields exactly the items that were not completed, unchanged  *)
(* and in their order; afterwards getCompletedCount() is 0 and             *)
(* getActiveCount() is what it was before; currentFilter is as before.     *)
(***************************************************************************)
C16_ClearCompleted ==
    last.op = "clearCompleted" =>
        /\ last.ret # Null
        /\ state = last.ret
        /\ state.todos = SelectSeq(last.pre.todos, LAMBDA t : ~Completed(t))
        /\ state.currentFilter = last.pre.currentFilter
        /\ getCompletedCount(state) = 0
        /\ getActiveCount(state) = getActiveCount(last.pre)

\* Of two items the completed one was cleared and the other one stayed.
C16_Witness ==
    /\ last.op = "clearCompleted"
    /\ Len(last.pre.todos) = 2
    /\ Len(state.todos) = 1
    /\ Completed(last.pre.todos[1])
    /\ state.todos[1] = last.pre.todos[2]

(***************************************************************************)
(* C17  clearCompleted() called right after clearCompleted() leaves the    *)
(* collection as the first call left it, and leaves durable storage as     *)
(* the first call left it when the first call's writes went through or     *)
(* both calls met the same write outcome.                                  *)
(***************************************************************************)
C17_ClearIdempotent ==
    [][(last.op = "clearCompleted" /\ last'.op = "clearCompleted")
       => /\ state' = state
          /\ (last.write = "ok" \/ last'.write = last.write) => storage' = storage]_vars

\* clearCompleted was called twice in a row on a collection that had held a
\* completed item from storage: the second call found the one item the first
\* call had left and the storage the first call had written.
C17_Witness ==
    /\ last.op = "clearCompleted"
    /\ last.again
    /\ last.write = "ok"
    /\ nextId = 0
    /\ Len(state.todos) = 1
    /\ state = last.pre
    /\ storage = last.preStorage
    /\ Synced

\* The items of a sequence, as a set.
Range(seq) == {seq[i] : i \in 1..Len(seq)}

Queries == {"getActiveCount", "getCompletedCount", "getFilteredTodos"}

(***************************************************************************)
(* C18  In every state the view under active holds only items that are     *)
(* not completed, the view under completed only completed ones, no item    *)
(* is in both, together they hold as many items as, and exactly the items  *)
(* of, the view under all, which is the whole collection.                  *)
(***************************************************************************)
C18_FilterPartition ==
    LET all == FilteredTodos(state.todos, "all")
        active == FilteredTodos(state.todos, "active")
        completed == FilteredTodos(state.todos, "completed")
    IN  /\ all = state.todos
        /\ \A i \in 1..Len(active) : ~Completed(active[i])
        /\ \A i \in 1..Len(completed) : Completed(completed[i])
        /\ Range(active) \cap Range(completed) = {}
        /\ Range(active) \cup Range(completed) = Range(all)
        /\ Len(active) + Len(completed) = Len(all)

\* getFilteredTodos returned, under active, one of the two items held; the
\* other one is completed.
C18_Witness ==
    /\ last.op = "getFilteredTodos"
    /\ state.currentFilter = "active"
    /\ Len(state.todos) = 2
    /\ Len(last.ret.items) = 1
    /\ \E i \in 1..2 : Completed(state.todos[i])

(***************************************************************************)
(* C19  In every state, whatever currentFilter is, getActiveCount() is     *)
(* the number of items that are not completed and getCompletedCount() the  *)
(* number of completed ones, so that they add up to the number of items;   *)
(* the three queries return these values and the current view, and leave   *)
(* the in-memory state and durable storage as they were.                   *)
(***************************************************************************)
C19_CountsAndPurity ==
    LET idx == 1..Len(state.todos)
        open == Cardinality({i \in idx : ~Completed(state.todos[i])})
        done == Cardinality({i \in idx : Completed(state.todos[i])})
    IN  /\ getActiveCount(state) = open
        /\ getCompletedCount(state) = done
        /\ getActiveCount(state) + getCompletedCount(state) = Len(state.todos)
        /\ last.op = "getActiveCount" => last.ret = JsNumber(open)
        /\ last.op = "getCompletedCount" => last.ret = JsNumber(done)
        /\ last.op = "getFilteredTodos" =>
              Len(last.ret.items) = CASE state.currentFilter = "active" -> open
                                      [] state.currentFilter = "completed" -> done
                                      [] OTHER -> Len(state.todos)
        /\ last.op \in Queries =>
              /\ state = last.pre
              /\ storage = last.preStorage
              /\ last.write = "none"

\* Under the filter completed, getActiveCount counted the one item that the
\* view does not show.
C19_Witness ==
    /\ last.op = "getActiveCount"
    /\ last.ret = JsNumber(1)
    /\ state.currentFilter = "completed"
    /\ Len(state.todos) = 2

(***************************************************************************)
(* C20  As claimed: when the items key holds text that JSON.parse does     *)
(* not accept, load() leaves the default state: no items, filter all.      *)
(***************************************************************************)
C20_CorruptRecovery ==
    (last.op = "load" /\ JSONparseThrows(storage[STORAGE_KEY])) =>
        state = DefaultState

(***************************************************************************)
(* Vocabulary of the properties of load                                    *)
(***************************************************************************)
\* load has just run and could read both keys.
Hydrated == last.op = "load" /\ last.write = "none"

\* The JSON value j is a record with a string under field f.
HasString(j, f) ==
    /\ j.type = "object"
    /\ f \in DOMAIN j.fields
    /\ j.fields[f].type = "string"

\* The stored items, when the items key holds an array; none otherwise.
StoredItems(store) ==
    IF store[STORAGE_KEY].kind = "json" /\ store[STORAGE_KEY].value.type = "array"
    THEN store[STORAGE_KEY].value.items
    ELSE <<>>

\* How often x occurs in seq.
Count(seq, x) == Cardinality({i \in 1..Len(seq) : seq[i] = x})

\* createdAt as load's comparator reads it: 0 when absent.
CreatedAtOrZero(t) == IF "createdAt" \in DOMAIN t THEN t.createdAt ELSE 0

(***************************************************************************)
(* C21  As claimed: when the items key holds text that parses to           *)
(* something other than an array, load() leaves the default state: no      *)
(* items, filter all.                                                      *)
(***************************************************************************)
C21_ShapeRecovery ==
    (/\ last.op = "load"
     /\ storage[STORAGE_KEY].kind = "json"
     /\ storage[STORAGE_KEY].value.type # "array") => state = DefaultState

(***************************************************************************)
(* C22  After a load() that could read storage, the collection holds       *)
(* exactly the stored records that have a string id and a string title,    *)
(* each as often as it is stored and with the fields it is stored with;    *)
(* every other entry of the stored array is dropped and takes no valid     *)
(* record with it.                                                         *)
(***************************************************************************)
C22_KeepsValidRecords ==
    Hydrated =>
        LET items == StoredItems(storage)
            valid == {i \in 1..Len(items) :
                         HasString(items[i], "id") /\ HasString(items[i], "title")}
        IN  /\ Len(state.todos) = Cardinality(valid)
            /\ \A i \in valid :
                  LET j == items[i]
                  IN  \E k \in 1..Len(state.todos) :
                         /\ DOMAIN state.todos[k] = DOMAIN j.fields
                         /\ \A f \in DOMAIN j.fields : state.todos[k][f] = j.fields[f].v
                         /\ Count(state.todos, state.todos[k])
                               = Cardinality({i2 \in valid : items[i2] = j})

\* Of five stored entries, four of them malformed, load kept the valid one.
C22_Witness ==
    /\ Hydrated
    /\ Len(StoredItems(storage)) = 5
    /\ Len(state.todos) = 1
    /\ state.todos[1].id = "s1"

(***************************************************************************)
(* C23  After load() the collection is ordered by createdAt descending,    *)
(* an absent createdAt reading as 0: each item's createdAt is greater than *)
(* or equal to that of the item after it.                                  *)
(***************************************************************************)
C23_SortedAfterLoad ==
    last.op = "load" =>
        \A i \in 1..Len(state.todos) - 1 :
            CreatedAtOrZero(state.todos[i]) >= CreatedAtOrZero(state.todos[i + 1])

\* Two records stored oldest first were loaded newest first.
C23_Witness ==
    /\ Hydrated
    /\ Len(StoredItems(storage)) = 2
    /\ Len(state.todos) = 2
    /\ state.todos[1].id = StoredItems(storage)[2].fields.id.v
    /\ state.todos[1].createdAt > state.todos[2].createdAt

(***************************************************************************)
(* C24  As claimed: after a load() that could read storage, currentFilter  *)
(* is the stored filter when that is one of all, active, completed, and    *)
(* all otherwise.                                                          *)
(***************************************************************************)
C24_FilterRestored ==
    Hydrated =>
        state.currentFilter =
            IF storage[FILTER_KEY].kind = "text"
               /\ storage[FILTER_KEY].v \in {"all", "active", "completed"}
            THEN storage[FILTER_KEY].v
            ELSE "all"

(***************************************************************************)
(* C24  As amended: after load() on the default state, currentFilter is    *)
(* the stored filter when that is one of all, active, completed, storage   *)
(* could be read and the items key does not hold non-empty text that       *)
(* JSON.parse rejects; it is all in every other case.                      *)
(***************************************************************************)
C24_FilterRestoredUnlessCaught ==
    last.op = "load" =>
        state.currentFilter =
            IF /\ last.write = "none"
               /\ storage[STORAGE_KEY].kind # "garbage"
               /\ storage[FILTER_KEY].kind = "text"
               /\ storage[FILTER_KEY].v \in {"all", "active", "completed"}
            THEN storage[FILTER_KEY].v
            ELSE "all"

\* The stored filter completed was adopted along with two stored items.
C24_Witness ==
    /\ Hydrated
    /\ storage[FILTER_KEY] = FilterText("completed")
    /\ state.currentFilter = "completed"
    /\ Len(state.todos) = 2

(***************************************************************************)
(* C26  The action of each mutation calls the model's operation once: the  *)
(* in-memory state afterwards is what one application of the operation to  *)
(* the state before returns.  It calls renderState() exactly when the      *)
(* model returned a state; when the model returned null, nothing is        *)
(* rendered and state and storage are as before; actions.addTodo returns   *)
(* true exactly when the model returned a state.                           *)
(***************************************************************************)
C26_ActionsDispatch ==
    IsCall =>
        /\ last.rendered = (last.ret # Null)
        /\ last.ret = Null => state = last.pre /\ storage = last.preStorage
        /\ last.op = "addTodo" => last.reported = JsBoolean(last.ret # Null)
        /\ last.ret # Null =>
              /\ state = last.ret
              /\ last.op = "toggleTodo" => state = toggleTodo(last.pre, last.id)
              /\ last.op = "deleteTodo" => state = deleteTodo(last.pre, last.id)
              /\ last.op = "editTodo" => state = editTodo(last.pre, last.id, last.title)
              /\ last.op = "setFilter" => state = setFilter(last.pre, last.filterType)
              /\ last.op = "clearCompleted" => state = clearCompleted(last.pre)
              /\ last.op = "addTodo" =>
                    state = addTodo(last.pre, last.title, Head(state.todos).id,
                                    Head(state.todos).createdAt)

\* actions.addTodo got null from the model for a title of 501 characters:
\* it rendered nothing and returned false.
C26_Witness ==
    /\ last.op = "addTodo"
    /\ last.title.type = "string"
    /\ StrLen(Trim(last.title.v)) = 501
    /\ last.reported = JsBoolean(FALSE)
    /\ ~last.rendered
    /\ Len(state.todos) > 0

(***************************************************************************)
(* C27  No call on the model lets an exception out: not load(), whatever   *)
(* the two keys hold and also when reading fails, and no mutation,         *)
(* whatever its arguments are and also when a write fails; a mutation      *)
(* returns null or the state it installed.                                 *)
(***************************************************************************)
C27_NoFault ==
    /\ ~last.fault
    /\ IsCall => (last.ret = Null \/ last.ret = state)

\* load() met a read that throws: it returned with the default state and left
\* the two stored items where they were.
C27_Witness ==
    /\ last.op = "load"
    /\ last.write = "failRead"
    /\ ~last.fault
    /\ state = DefaultState
    /\ Len(StoredItems(storage)) = 2

(***************************************************************************)
(* C28  With generateId() returning a new value at each call, an accepted  *)
(* addTodo gives the new item an id that no item held before has, no       *)
(* other mutation makes an id occur more often than it did, and so the     *)
(* items created are pairwise distinct in their ids.                       *)
(***************************************************************************)
C28_CreatedIdsDistinct ==
    LET ids(todos) == {todos[i].id : i \in 1..Len(todos)}
        occurs(todos, id) == Cardinality({i \in 1..Len(todos) : todos[i].id = id})
        generated == {generateId(n) : n \in 1..nextId}
    IN  /\ (last.op = "addTodo" /\ last.ret # Null) =>
              Head(state.todos).id \notin ids(last.pre.todos)
        /\ (IsCall /\ last.op # "addTodo") =>
              \A id \in ids(state.todos) :
                  occurs(state.todos, id) <= occurs(last.pre.todos, id)
        /\ \A i, j \in 1..Len(state.todos) :
              (i # j /\ state.todos[i].id \in generated)
                 => state.todos[i].id # state.todos[j].id

\* A second item was created next to the first one created.
C28_Witness ==
    /\ last.op = "addTodo"
    /\ last.ret # Null
    /\ Len(state.todos) = 2
    /\ state.todos[1].id = generateId(2)
    /\ state.todos[2].id = generateId(1)

\* The ids of a collection, in its order.
IdsOf(todos) == [i \in 1..Len(todos) |-> todos[i].id]

\* a can be had from b by leaving elements out.
RECURSIVE IsSubSeq(_, _)
IsSubSeq(a, b) ==
    IF a = <<>> THEN TRUE
    ELSE IF b = <<>> THEN FALSE
    ELSE IF Head(a) = Head(b) THEN IsSubSeq(Tail(a), Tail(b))
    ELSE IsSubSeq(a, Tail(b))

(***************************************************************************)
(* C29  As claimed: once loaded, the collection is always newest first,    *)
(* an item with a larger createdAt standing before one with a smaller;     *)
(* and toggleTodo, editTodo, deleteTodo, clearCompleted and setFilter      *)
(* leave the items that stay in the order they had.                        *)
(***************************************************************************)
C29_NewestFirst ==
    /\ loaded =>
          \A i, j \in 1..Len(state.todos) :
              CreatedAtOrZero(state.todos[i]) > CreatedAtOrZero(state.todos[j]) => i < j
    /\ (WasAccepted /\ last.op # "addTodo") =>
          IsSubSeq(IdsOf(state.todos), IdsOf(last.pre.todos))

(***************************************************************************)
(* C30  No event of the service worker or of its registration and update   *)
(* flow changes model.state or what localStorage holds under the two keys: *)
(* right after install, fetch, activate, message, updatefound, statechange *)
(* or controllerchange was handled, both are what they were when the event *)
(* was delivered.                                                          *)
(***************************************************************************)
C30_WorkerLeavesStore ==
    last.op \in WorkerEvents =>
        /\ state = last.pre
        /\ storage = last.preStorage

\* controllerchange was handled and the page has asked for a reload while
\* model.state holds a change that a failed write kept out of storage.
C30_Witness ==
    /\ last.op = "controllerchange"
    /\ sw.page.navigating
    /\ state = last.pre
    /\ Len(state.todos) = 2
    /\ state # load(DefaultState, storage, FALSE)

\* The todos array of the object model.state refers to, and the objects in it.
CurrentArray == heap.objs[heap.cur].todos
CurrentItems == heap.objs[CurrentArray].items

\* model.state and everything the model returned so far still read as they
\* did when they were installed or returned.
ObjectsKeepValue ==
    /\ state = Deep(heap.objs, heap.cur)
    /\ \A s \in heap.returned : Deep(heap.objs, s.ref) = s.value

\* The last accepted mutation constructed the state object and, for
\* toggleTodo and editTodo, the object of every item it changed.
FreshStateAndItems ==
    WasAccepted =>
        /\ heap.cur > heap.before
        /\ last.op \in {"toggleTodo", "editTodo"} =>
              \A i \in 1..Len(CurrentItems) :
                  state.todos[i].id = last.id.v => CurrentItems[i] > heap.before

(***************************************************************************)
(* C25  As claimed: every accepted mutation installs a state object and a  *)
(* todos array constructed during the call and, for toggleTodo and         *)
(* editTodo, a new object for every item changed; and every state the      *)
(* model returned still has the value it was returned with.                *)
(***************************************************************************)
C25_FreshObjects ==
    /\ ObjectsKeepValue
    /\ FreshStateAndItems
    /\ WasAccepted => CurrentArray > heap.before

(***************************************************************************)
(* C34  For every fetch event handled: when the cache held a response for  *)
(* the request, respondWith is given that response whatever the network    *)
(* comes to, the network request is issued all the same, and the cached    *)
(* entry is replaced by the network response exactly when that response is *)
(* ok; when the cache held none, respondWith is given the network          *)
(* response, if there is one, and an ok response is put into the cache.    *)
(***************************************************************************)
C34_StaleWhileRevalidate ==
    last.op = "fetch" =>
        LET f == last.ret
            entry == sw.entries[last.id.v]
            answered == f.network.kind = "response"
        IN  /\ f.issued
            /\ f.cached # NoResponse => f.respond = f.cached
            /\ (f.cached = NoResponse /\ answered) => f.respond = f.network.response
            /\ entry = IF answered /\ f.network.response.ok
                       THEN f.network.response ELSE f.cached

\* A fetch answered from the cache with the response of release 1 while the
\* network gave an ok response of release 2, which is now the cached entry.
C34_Witness ==
    /\ last.op = "fetch"
    /\ last.ret.cached = Response(TRUE, 1)
    /\ last.ret.respond = Response(TRUE, 1)
    /\ last.ret.network.kind = "response"
    /\ sw.entries[last.id.v] = Response(TRUE, 2)

(***************************************************************************)
(* C35  Once the activate handler's chain has run to its end, no cache     *)
(* with a name other than CACHE_NAME is left and the cache CACHE_NAME is   *)
(* still there; and the worker is made the controller of the page          *)
(* (clients.claim()) only when the deletions are done: while a cache of    *)
(* another name exists the page has no controller.                         *)
(***************************************************************************)
C35_ActivateCleansUp ==
    /\ (sw.active # 0 /\ sw.chain = <<>>) => sw.caches = {CACHE_NAME}
    /\ sw.controller # 0 => sw.caches \subseteq {CACHE_NAME}
    /\ CACHE_NAME \notin sw.deleted

\* The chain of activate has ended on an origin that held an old cache:
\* the old cache is deleted, the current one kept, the page claimed.
C35_Witness ==
    /\ last.op = "activate"
    /\ sw.chain = <<>>
    /\ OldCache \in sw.deleted
    /\ sw.caches = {CACHE_NAME}
    /\ sw.controller = sw.active
    /\ sw.controller # 0

(***************************************************************************)
(* C36  The update banner is shown only for a worker that got installed    *)
(* while the page had a controller, a worker other than that one, so never *)
(* for the first install; a waiting worker has called skipWaiting() only   *)
(* if the page posted 'skipWaiting' to it, and the page posts that message *)
(* only from the Update button of the banner shown for that worker.        *)
(***************************************************************************)
C36_UpdatePrompt ==
    /\ sw.page.banner # 0 =>
          /\ sw.page.bannerUnder # 0
          /\ sw.page.bannerUnder # sw.page.banner
    /\ sw.skipWaiting => (sw.waiting # 0 /\ sw.asked = sw.waiting)
    /\ sw.inbox # NoMessage =>
          (sw.inbox.data = "skipWaiting" /\ sw.inbox.to = sw.asked)
    /\ sw.asked # 0 => sw.asked > 1

\* The waiting worker 2 has called skipWaiting() after the message the
\* Update button of its banner posted.
C36_Witness ==
    /\ last.op = "message"
    /\ last.title = JsString("skipWaiting")
    /\ sw.skipWaiting
    /\ sw.waiting = 2
    /\ sw.page.banner = 2
    /\ sw.page.bannerUnder = 1

(***************************************************************************)
(* C40  A page calls window.location.reload() at most once, however many   *)
(* controllerchange events it receives: the first one sets refreshing and  *)
(* reloads, every later one returns at once.                               *)
(***************************************************************************)
C40_OneReload ==
    /\ sw.page.reloads <= 1
    /\ sw.page.changes >= 1 => (sw.page.reloads = 1 /\ sw.page.refreshing)
    /\ sw.page.navigating <=> sw.page.reloads = 1

\* The page has received a second controllerchange event and has called
\* reload() once.
C40_Witness ==
    /\ last.op = "controllerchange"
    /\ sw.page.changes = 2
    /\ sw.page.reloads = 1

\* Reading the two keys gives this state: the items text is the
\* serialization of its items (or is absent, for none) and the filter read,
\* all when the key is absent, is its filter.
ReadsAs(store, st) ==
    /\ \/ store[STORAGE_KEY] = JSONstringify(st.todos)
       \/ store[STORAGE_KEY].kind = "missing" /\ st.todos = <<>>
    /\ DurableFilter(store) = st.currentFilter

(***************************************************************************)
(* C37  As claimed: whatever writes fail, what the two keys hold reads as  *)
(* a state that model.state has had at some earlier instant, or had in the *)
(* session that wrote the storage the page was opened on.                  *)
(***************************************************************************)
C37_NeverTorn ==
    \E st \in trail.held : ReadsAs(storage, st)

(***************************************************************************)
(* C38  After one or more accepted mutations whose write failed, the first *)
(* accepted mutation whose two writes succeed leaves storage holding       *)
(* exactly the serialization of the in-memory state: save() writes both    *)
(* keys in full.                                                           *)
(***************************************************************************)
C38_ResyncOnSuccess ==
    (WasAccepted /\ last.write = "ok" /\ trail.recovered > 0) =>
        /\ Synced
        /\ trail.failed = 0

\* Two writes in a row failed, storage was behind in items and filter, and
\* the next mutation wrote the state through.
C38_Witness ==
    /\ WasAccepted
    /\ last.write = "ok"
    /\ trail.recovered = 2
    /\ last.preStorage[STORAGE_KEY] # JSONstringify(last.pre.todos)
    /\ DurableFilter(last.preStorage) # last.pre.currentFilter
    /\ Synced

\* The items of the collection the current filter lets through, in the
\* collection's order.
ItemsInView ==
    SelectSeq(state.todos,
              LAMBDA t : \/ state.currentFilter = "all"
                         \/ state.currentFilter = "active" /\ ~Completed(t)
                         \/ state.currentFilter = "completed" /\ Completed(t))

(***************************************************************************)
(* C31  Once init() has run, and after every call of an action, the list   *)
(* in the document holds one element for each item of the filtered view of *)
(* the current state, in the same order, with that item's id and title,    *)
(* and shown as completed exactly when the item is completed; the filter   *)
(* button marked is the current filter.                                    *)
(***************************************************************************)
C31_ListShowsView ==
    loaded =>
        /\ Len(ui.list) = Len(ItemsInView)
        /\ \A i \in 1..Len(ItemsInView) :
              /\ ui.list[i].id = ItemsInView[i].id
              /\ ui.list[i].title = ItemsInView[i].title
              /\ ui.list[i].completed <=> Completed(ItemsInView[i])
        /\ ui.pressed = state.currentFilter
        /\ ItemsInView = getFilteredTodos(state)

\* An item was toggled under the filter active and left the list, while
\* another stays.
C31_Witness ==
    /\ last.op = "toggleTodo"
    /\ last.ret # Null
    /\ last.rendered
    /\ state.currentFilter = "active"
    /\ Len(last.pre.todos) = 2
    /\ Len(getFilteredTodos(last.pre)) = 2
    /\ Len(ui.list) = 1

(***************************************************************************)
(* C32  Once init() has run, and after every call of an action, the footer *)
(* is hidden exactly when the collection is empty, the Clear Completed     *)
(* button is hidden exactly when no item is completed, the empty-state     *)
(* message is shown exactly when the filtered view is empty, and the       *)
(* counter reads "1 item left" for one active item of the whole collection *)
(* and "N items left" for any other number N of them.                      *)
(***************************************************************************)
C32_Indicators ==
    loaded =>
        LET active == Len(SelectSeq(state.todos, LAMBDA t : ~Completed(t)))
            done == Len(SelectSeq(state.todos, Completed))
        IN  /\ ui.footerHidden <=> Len(state.todos) = 0
            /\ ui.clearHidden <=> done = 0
            /\ ~ui.emptyHidden <=> Len(ItemsInView) = 0
            /\ ui.counter = <<active, IF active = 1 THEN "item left" ELSE "items left">>

\* The filter completed hides the only item, which is active: the message
\* is shown, the counter still counts the item, the footer stays.
C32_Witness ==
    /\ loaded
    /\ last.rendered
    /\ state.currentFilter = "completed"
    /\ Len(state.todos) = 1
    /\ ui.list = <<>>
    /\ ~ui.emptyHidden
    /\ ui.emptyText = "No completed todos."
    /\ ui.counter = <<1, "item left">>
    /\ ui.clearHidden
    /\ ~ui.footerHidden

(***************************************************************************)
(* C33  As claimed: an edit session in which Escape was pressed makes no   *)
(* call of actions.editTodo, whatever blur events and timers follow.       *)
(***************************************************************************)
C33_EscapeCancels ==
    \A k \in DOMAIN ui.sessions :
        ui.sessions[k].escaped => ui.sessions[k].calls = 0

(***************************************************************************)
(* C39  As claimed: no edit session calls actions.editTodo more than once. *)
(***************************************************************************)
C39_OneEditPerSession ==
    \A k \in DOMAIN ui.sessions : ui.sessions[k].calls <= 1

=============================================================================
